---------------------------- MODULE Spec2Model ----------------------------
(***************************************************************************)
(* RTC abstraction of XJU-Hurricane-Team/STM32-Example.                    *)
(*                                                                         *)
(*   record-imu-to-flash  : STM32F4, calendar-register RTC ("F4")          *)
(*   uart-record-to-flash : STM32F1, 32-bit second counter RTC ("F1")      *)
(*                                                                         *)
(* The two rtc.c files, the weekday function and the interactive time-set  *)
(* protocol of main.c are modelled.  Each group of operations has its own  *)
(* specification over the same variables:                                  *)
(*   SpecWeek  rtc_get_week as a pure function over a century of dates     *)
(*   SpecCal   the F4 API: rtc_set_time, rtc_set_time_t, rtc_get_time,     *)
(*             rtc_get_time_t and the hardware second tick                 *)
(*   SpecCnt   the F1 API, statement by statement, with the counter tick   *)
(*   SpecBoot  rtc_init -> HAL_RTC_Init -> HAL_RTC_MspInit on both builds  *)
(*   SpecKey   rtc_key_set_time of main.c against the millisecond tick     *)
(*   SpecAlarm the F1 alarm API, the time setter and the alarm interrupt   *)
(*   SpecReboot boots of either build separated by resets and power cuts   *)
(***************************************************************************)
EXTENDS Integers, Sequences, FiniteSets, TLC

(***************************************************************************)
(* Program constants                                                       *)
(***************************************************************************)
RTC_USE_LSE == 34816      \* 0x8800
RTC_USE_LSI == 34817      \* 0x8801
RETRY_INIT == 200         \* uint16_t retry = 200
LSE_POLL_MS == 5          \* HAL_Delay(5)
LEAP_DELAY_MS == 1000     \* HAL_Delay(1000)
KEY_WAIT_MS == 1000       \* HAL_GetTick() - start_time < 1000
LINE_WAIT_MS == 10000     \* HAL_GetTick() - start_time < 10000

(***************************************************************************)
(* Bounds of the model                                                     *)
(***************************************************************************)
MaxTicks == 1             \* hardware second ticks followed after a set / a boot
MaxYday == 60             \* rtc_get_time is followed while tm_yday <= MaxYday
MaxAlarms == 2            \* runs of the alarm callback followed
MaxResets == 2            \* resets and power cuts followed

(***************************************************************************)
(* Fixed-width arithmetic                                                  *)
(***************************************************************************)
U8(x) == x % 256
U16(x) == x % 65536

(***************************************************************************)
(* Calendar helpers of rtc.c (F4)                                          *)
(***************************************************************************)
month_day_table == <<31, 28, 31, 30, 31, 30, 31, 31, 30, 31, 30, 31>>

IS_LEAP_YEAR(YEAR) ==
    IF ((YEAR % 4 = 0) /\ (YEAR % 100 # 0)) \/ (YEAR % 400 = 0) THEN 1 ELSE 0

\* mutant: the +1 that turns Monday-based into Sunday-based is dropped
rtc_get_week_mondayBased(year, month, day) ==
    LET m == IF month < 3 THEN U8(month + 12) ELSE month
        y == IF month < 3 THEN U16(year - 1) ELSE year
    IN  U8((day + 2 * m + ((3 * (m + 1)) \div 5) + y + (y \div 4)
             - (y \div 100) + (y \div 400)) % 7)

\* uint8_t rtc_get_week(uint16_t year, uint8_t month, uint8_t day)
\* the operands are promoted to int, the sum is positive, year >> 2 is y div 4
rtc_get_week(year, month, day) ==
    LET m == IF month < 3 THEN U8(month + 12) ELSE month
        y == IF month < 3 THEN U16(year - 1) ELSE year
    IN  U8((day + 1 + 2 * m + ((3 * (m + 1)) \div 5) + y + (y \div 4)
             - (y \div 100) + (y \div 400)) % 7)

(***************************************************************************)
(* C library: struct tm, mktime, localtime (no time zone: UTC)             *)
(*                                                                         *)
(* A time_t value t is kept as the record [d, s] with t = d * 86400 + s    *)
(* and 0 <= s < 86400: the checker's integers are 32-bit signed and the    *)
(* counter is 32-bit unsigned.                                             *)
(***************************************************************************)
TimeT(d, s) == [d |-> d, s |-> s]

Tm(y, mo, d, h, mi, s, wd, yd, dst) ==
    [tm_year |-> y, tm_mon |-> mo, tm_mday |-> d, tm_hour |-> h, tm_min |-> mi,
     tm_sec |-> s, tm_wday |-> wd, tm_yday |-> yd, tm_isdst |-> dst]

\* length of month mon (0..11) of the calendar year
DaysInMonth(year, mon) ==
    month_day_table[mon + 1] + (IF mon = 1 THEN IS_LEAP_YEAR(year) ELSE 0)

RECURSIVE DaysBeforeMonth(_, _)
DaysBeforeMonth(year, mon) ==
    IF mon <= 0 THEN 0
    ELSE DaysBeforeMonth(year, mon - 1) + DaysInMonth(year, mon - 1)

LeapsBefore(year) ==
    ((year - 1) \div 4) - ((year - 1) \div 100) + ((year - 1) \div 400)

\* days from 1970-01-01 to the given calendar day
DaysFromEpoch(year, mon, mday) ==
    365 * (year - 1970) + (LeapsBefore(year) - LeapsBefore(1970))
      + DaysBeforeMonth(year, mon) + (mday - 1)

\* time_t mktime(struct tm *): the value returned; tm_wday and tm_yday are ignored
mktime(tm) ==
    TimeT(DaysFromEpoch(1900 + tm.tm_year, tm.tm_mon, tm.tm_mday),
          tm.tm_hour * 3600 + tm.tm_min * 60 + tm.tm_sec)

\* mktime also writes the derived fields back into the structure it is given
mktime_fill(tm) ==
    LET days == DaysFromEpoch(1900 + tm.tm_year, tm.tm_mon, tm.tm_mday)
    IN  [tm EXCEPT !.tm_wday = (4 + days) % 7,
                   !.tm_yday = DaysBeforeMonth(1900 + tm.tm_year, tm.tm_mon)
                                 + (tm.tm_mday - 1)]

RECURSIVE YearFromDays(_, _)
YearFromDays(days, year) ==
    IF days < 365 + IS_LEAP_YEAR(year) THEN <<year, days>>
    ELSE YearFromDays(days - (365 + IS_LEAP_YEAR(year)), year + 1)

RECURSIVE MonthFromDays(_, _, _)
MonthFromDays(yday, year, mon) ==
    IF yday < DaysInMonth(year, mon) THEN <<mon, yday>>
    ELSE MonthFromDays(yday - DaysInMonth(year, mon), year, mon + 1)

\* struct tm *localtime(const time_t *) for t >= 0
localtime(t) ==
    LET days == t.d
        rem == t.s
        yy == YearFromDays(days, 1970)
        mm == MonthFromDays(yy[2], yy[1], 0)
    IN  Tm(yy[1] - 1900, mm[1], mm[2] + 1, rem \div 3600, (rem % 3600) \div 60,
           rem % 60, (4 + days) % 7, yy[2], 0)

(***************************************************************************)
(* Reference weekday, counted day by day from Saturday 2000-01-01          *)
(***************************************************************************)
RECURSIVE DaysSince2000(_)
DaysSince2000(year) ==
    IF year = 2000 THEN 0
    ELSE DaysSince2000(year - 1) + 365 + IS_LEAP_YEAR(year - 1)

\* month 1..12
RefWeekday(year, month, day) ==
    (6 + DaysSince2000(year) + DaysBeforeMonth(year, month - 1) + (day - 1)) % 7

VARIABLES
    \* control and observation
    pc,          \* position of the main flow
    op,          \* the API call that completed last
    arg,         \* argument of the call in progress / completed last
    ret,         \* value returned by the call completed last
    out,         \* lines printed so far
    elapsed,     \* milliseconds the last call spent in HAL_Delay
    last_set,    \* calendar time / timestamp handed to the last time setter
    ticks,       \* hardware second ticks since the last set (or since boot)
    set_calls,   \* number of rtc_set_time calls made
    \* F4 calendar registers and the static result of rtc_get_time
    RTC_DR, RTC_TR, RTC_CR_BKP, now_time,
    \* F1 counter registers
    RTC_CNTL, RTC_CNTH, RTC_ALRL, RTC_ALRH, RTC_CRL, RTC_CRH_ALRIE,
    rd,          \* halves read so far by the expression time() is evaluating
    \* backup domain, oscillator and rtc_init
    backend, BKP_DR1, RCC_BDCR, PWR_CR_DBP, bkp_flag, retry, lse_ok, polls,
    boot_DR1, boot_clock, caller,
    \* rtc_key_set_time
    uwTick, start_time, key, buffer, input_time,
    key_at,      \* milliseconds into the 1 s window at which the key was seen
    line_at,     \* milliseconds into the 10 s window at which the line was read
    \* F1 alarm: EXTI line 17 and the interrupt path
    EXTI_RTC,
    alarm_runs,  \* runs of HAL_RTC_AlarmAEventCallback so far
    runs_since_set, \* those of them since the last rtc_set_alarm_t call
    irq_at,      \* position of the main flow when the handler last ran
    last_alarm,  \* timestamp handed to the last rtc_set_alarm_t
    \* history kept for the properties
    held,        \* values the counter held during the time() call in progress
    stored,      \* value time() stored through its argument
    rdy_at_exit, \* LSERDY as the probe loop saw it when it ended (-1: not yet)
    dr1_reads,   \* reads of DR1 made by this boot
    dr1_writes,  \* writes of DR1 made by this boot
    clock_written, \* a time setter wrote the clock since the backup domain
                 \* last lost power
    resets       \* resets and power cuts so far

obsVars == <<pc, op, arg, ret, out, elapsed, last_set, ticks, set_calls>>
f4Vars == <<RTC_DR, RTC_TR, RTC_CR_BKP, now_time>>
f1Vars == <<RTC_CNTL, RTC_CNTH, RTC_ALRL, RTC_ALRH, RTC_CRL, RTC_CRH_ALRIE, rd>>
bootVars == <<backend, BKP_DR1, RCC_BDCR, PWR_CR_DBP, bkp_flag, retry, lse_ok,
              polls, boot_DR1, boot_clock, caller>>
keyVars == <<uwTick, start_time, key, buffer, input_time, key_at, line_at>>
obsVarsButPc == <<op, arg, ret, out, elapsed, last_set, ticks, set_calls>>
almVars == <<EXTI_RTC, alarm_runs, runs_since_set, irq_at, last_alarm>>
histVars == <<held, stored, rdy_at_exit, dr1_reads, dr1_writes, clock_written, resets>>
vars == <<obsVars, f4Vars, f1Vars, bootVars, keyVars, almVars, histVars>>

None == "none"              \* no string value yet
Nil == [nil |-> TRUE]       \* no structure / no number yet

(***************************************************************************)
(* Power-on values of each group                                           *)
(***************************************************************************)
\* F4 backup-domain reset: 2000-01-01 00:00:00, week day 1; statics are zero
F4Reset ==
    /\ RTC_DR = [Year |-> 0, Month |-> 1, Date |-> 1, WeekDay |-> 1]
    /\ RTC_TR = [Hours |-> 0, Minutes |-> 0, Seconds |-> 0]
    /\ RTC_CR_BKP = 0
    /\ now_time = Tm(0, 0, 0, 0, 0, 0, 0, 0, 0)

F1Reset ==
    /\ RTC_CNTL = 0
    /\ RTC_CNTH = 0
    /\ RTC_ALRL = 65535
    /\ RTC_ALRH = 65535
    /\ RTC_CRL = [CNF |-> 0, RTOFF |-> 1, ALRF |-> 0]
    /\ RTC_CRH_ALRIE = 0
    /\ rd = <<>>

BootQuiet ==
    /\ backend = None
    /\ BKP_DR1 = 0
    /\ RCC_BDCR = [LSEON |-> 0, LSERDY |-> 0, RTCSEL |-> None]
    /\ PWR_CR_DBP = 0
    /\ bkp_flag = 0
    /\ retry = 0
    /\ lse_ok = FALSE
    /\ polls = 0
    /\ boot_DR1 = 0
    /\ boot_clock = 0
    /\ caller = None

KeyQuiet ==
    /\ uwTick = 0
    /\ start_time = 0
    /\ key = None
    /\ buffer = <<>>
    /\ input_time = Tm(0, 0, 0, 0, 0, 0, 0, 0, 0)
    /\ key_at = -1
    /\ line_at = -1

AlmQuiet ==
    /\ EXTI_RTC = [IMR |-> 0, RTSR |-> 0, PR |-> 0]
    /\ alarm_runs = 0
    /\ runs_since_set = 0
    /\ irq_at = None
    /\ last_alarm = Nil

HistQuiet ==
    /\ held = {}
    /\ stored = Nil
    /\ rdy_at_exit = -1
    /\ dr1_reads = 0
    /\ dr1_writes = 0
    /\ clock_written = FALSE
    /\ resets = 0

ObsQuiet ==
    /\ op = None
    /\ ret = Nil
    /\ out = <<>>
    /\ elapsed = 0
    /\ last_set = Nil
    /\ ticks = 0
    /\ set_calls = 0

(***************************************************************************)
(* SpecWeek: rtc_get_week applied to every valid date of 2000..2099        *)
(***************************************************************************)
CenturyDates ==
    {d \in [year : 2000..2099, month : 1..12, day : 1..31] :
        d.day <= DaysInMonth(d.year, d.month - 1)}

InitWeek ==
    /\ pc = "week_call"
    /\ arg \in CenturyDates
    /\ ObsQuiet /\ F4Reset /\ F1Reset /\ BootQuiet /\ KeyQuiet /\ AlmQuiet /\ HistQuiet

CallGetWeek ==
    /\ pc = "week_call"
    /\ ret' = rtc_get_week(arg.year, arg.month, arg.day)
    /\ op' = "rtc_get_week"
    /\ pc' = "week_done"
    /\ UNCHANGED <<arg, out, elapsed, last_set, ticks, set_calls>>
    /\ UNCHANGED <<f4Vars, f1Vars, bootVars, keyVars>>
    /\ UNCHANGED almVars
    /\ UNCHANGED histVars

NextWeek == CallGetWeek

SpecWeek == InitWeek /\ [][NextWeek]_vars

\* C8: for every valid date of 2000..2099 rtc_get_week returns the reference
\* proleptic-Gregorian weekday, 0 = Sunday .. 6 = Saturday.
C8_WeekMatchesReference ==
    (pc = "week_done") =>
        /\ ret = RefWeekday(arg.year, arg.month, arg.day)
        /\ ret \in 0..6

\* a leap day, which goes through the month < 3 branch: Thursday 2024-02-29
C8_Witness ==
    /\ pc = "week_done"
    /\ arg = [year |-> 2024, month |-> 2, day |-> 29]
    /\ ret = 4

(***************************************************************************)
(* F4 HAL: the calendar registers hold two-digit BCD fields                *)
(***************************************************************************)
\* uint8_t RTC_ByteToBcd2(uint8_t): (uint8_t)(tens << 4) | units
RTC_ByteToBcd2(number) == U8((number \div 10) * 16) + (number % 10)

\* uint8_t RTC_Bcd2ToByte(uint8_t)
RTC_Bcd2ToByte(number) == (number \div 16) * 10 + (number % 16)

\* HAL_RTC_SetDate(.., RTC_FORMAT_BIN): the value written to RTC->DR, by field
\* (YT:YU 8 bits, WDU 3 bits, MT:MU 5 bits, DT:DU 6 bits)
HAL_RTC_SetDate(sDate) ==
    [Year |-> RTC_ByteToBcd2(sDate.Year),
     Month |-> RTC_ByteToBcd2(sDate.Month) % 32,
     Date |-> RTC_ByteToBcd2(sDate.Date) % 64,
     WeekDay |-> sDate.WeekDay % 8]

\* HAL_RTC_SetTime(.., RTC_FORMAT_BIN): the value written to RTC->TR, by field
HAL_RTC_SetTime(sTime) ==
    [Hours |-> RTC_ByteToBcd2(sTime.Hours) % 64,
     Minutes |-> RTC_ByteToBcd2(sTime.Minutes) % 128,
     Seconds |-> RTC_ByteToBcd2(sTime.Seconds) % 128]

\* HAL_RTC_GetDate(.., RTC_FORMAT_BIN)
HAL_RTC_GetDate ==
    [Year |-> RTC_Bcd2ToByte(RTC_DR.Year),
     Month |-> RTC_Bcd2ToByte(RTC_DR.Month),
     Date |-> RTC_Bcd2ToByte(RTC_DR.Date),
     WeekDay |-> RTC_DR.WeekDay]

\* HAL_RTC_GetTime(.., RTC_FORMAT_BIN)
HAL_RTC_GetTime ==
    [Hours |-> RTC_Bcd2ToByte(RTC_TR.Hours),
     Minutes |-> RTC_Bcd2ToByte(RTC_TR.Minutes),
     Seconds |-> RTC_Bcd2ToByte(RTC_TR.Seconds)]

(***************************************************************************)
(* F4 rtc.c: rtc_set_time                                                  *)
(***************************************************************************)
\* RTC_DateTypeDef rtc_date as filled from _tm (uint8_t fields)
set_rtc_date(_tm) ==
    [Year |-> U8(_tm.tm_year - 100),
     Month |-> U8(_tm.tm_mon + 1),
     Date |-> U8(_tm.tm_mday),
     WeekDay |-> U8(_tm.tm_wday + 1)]

\* mutant: the leap second is written as it comes
set_rtc_time_noLeap(_tm) ==
    [Hours |-> U8(_tm.tm_hour),
     Minutes |-> U8(_tm.tm_min),
     Seconds |-> U8(_tm.tm_sec)]

\* RTC_TimeTypeDef rtc_time as filled from _tm, second 60 replaced by 59
set_rtc_time(_tm) ==
    [Hours |-> U8(_tm.tm_hour),
     Minutes |-> U8(_tm.tm_min),
     Seconds |-> IF _tm.tm_sec = 60 THEN 59 ELSE U8(_tm.tm_sec)]

\* HAL_Delay(1000) when the second is 60
set_delay(_tm) == IF _tm.tm_sec = 60 THEN LEAP_DELAY_MS ELSE 0

\* void rtc_set_time(const struct tm *_tm): its effect on the registers
rtc_set_time(_tm) ==
    /\ elapsed' = set_delay(_tm)
    /\ RTC_DR' = HAL_RTC_SetDate(set_rtc_date(_tm))
    /\ RTC_TR' = HAL_RTC_SetTime(set_rtc_time(_tm))
    /\ RTC_CR_BKP' = IF _tm.tm_isdst # 0 THEN 1 ELSE 0

(***************************************************************************)
(* F4 rtc.c: rtc_get_time                                                  *)
(***************************************************************************)
\* month_day_table[0] + .. + month_day_table[n - 1]; nothing when n <= 0
RECURSIVE SumMonthTable(_)
SumMonthTable(n) ==
    IF n <= 0 THEN 0 ELSE SumMonthTable(n - 1) + month_day_table[n]

\* the day of the year of the stored month, counted from zero
yday_of(tm_year, tm_mon) ==
    SumMonthTable(tm_mon)
      + (IF tm_mon >= 2 /\ IS_LEAP_YEAR(1900 + tm_year) = 1 THEN 1 ELSE 0)

\* the structure rtc_get_time leaves in its static now_time: tm_yday is
\* added to, starting from the value the previous call left there
rtc_get_time ==
    LET rtc_time == HAL_RTC_GetTime
        rtc_date == HAL_RTC_GetDate
        tm_year == rtc_date.Year + 100
        tm_mon == rtc_date.Month - 1
    IN  Tm(tm_year, tm_mon, rtc_date.Date, rtc_time.Hours, rtc_time.Minutes,
           rtc_time.Seconds, rtc_date.WeekDay - 1,
           now_time.tm_yday + yday_of(tm_year, tm_mon), RTC_CR_BKP)

(***************************************************************************)
(* F4 hardware: one second passes in the calendar registers                *)
(***************************************************************************)
F4NextSecond(dr, tr) ==
    LET s == RTC_Bcd2ToByte(tr.Seconds)
        mi == RTC_Bcd2ToByte(tr.Minutes)
        h == RTC_Bcd2ToByte(tr.Hours)
        d == RTC_Bcd2ToByte(dr.Date)
        mo == RTC_Bcd2ToByte(dr.Month)
        y == RTC_Bcd2ToByte(dr.Year)
        len == month_day_table[mo] + (IF mo = 2 /\ y % 4 = 0 THEN 1 ELSE 0)
        bcd(x) == RTC_ByteToBcd2(x)
    IN  IF s < 59 THEN <<dr, [tr EXCEPT !.Seconds = bcd(s + 1)]>>
        ELSE IF mi < 59
            THEN <<dr, [tr EXCEPT !.Seconds = 0, !.Minutes = bcd(mi + 1)]>>
        ELSE IF h < 23
            THEN <<dr, [Hours |-> bcd(h + 1), Minutes |-> 0, Seconds |-> 0]>>
        ELSE LET wd == IF dr.WeekDay = 7 THEN 1 ELSE dr.WeekDay + 1
                 t0 == [Hours |-> 0, Minutes |-> 0, Seconds |-> 0]
             IN  IF d < len
                     THEN <<[dr EXCEPT !.Date = bcd(d + 1), !.WeekDay = wd], t0>>
                 ELSE IF mo < 12
                     THEN <<[dr EXCEPT !.Date = 1, !.Month = bcd(mo + 1),
                                       !.WeekDay = wd], t0>>
                 ELSE <<[Year |-> bcd((y + 1) % 100), Month |-> 1, Date |-> 1,
                         WeekDay |-> wd], t0>>

(***************************************************************************)
(* SpecCal: the F4 API called in any order                                 *)
(***************************************************************************)
\* <<tm_year, tm_mon, tm_mday>>: 1970-01-01, 2023-03-01, 2024-03-01,
\* 2024-06-01 and 2016-12-31 (whose last minute had a leap second)
CalDates ==
    {<<70, 0, 1>>, <<123, 2, 1>>, <<124, 2, 1>>, <<124, 5, 1>>, <<116, 11, 31>>}
CalClocks == {<<12, 0, 0>>, <<23, 59, 59>>, <<23, 59, 60>>}

TrueWday(d) == (4 + DaysFromEpoch(1900 + d[1], d[2], d[3])) % 7

\* valid calendar times: every date at every clock with its true weekday, and
\* at noon also with the tm_wday = 0 of a zero-initialised structure and with
\* the daylight-saving flag set
ValidCalInputs ==
    {Tm(d[1], d[2], d[3], c[1], c[2], c[3], TrueWday(d), 0, 0) :
        d \in CalDates, c \in CalClocks}
    \cup {Tm(d[1], d[2], d[3], 12, 0, 0, 0, 0, 0) : d \in CalDates}
    \cup {Tm(d[1], d[2], d[3], 12, 0, 0, TrueWday(d), 0, 1) : d \in CalDates}

\* timestamps for rtc_set_time_t: 0, 2024-06-01 12:00:00, 2023-12-31 23:59:59
CalStamps == {TimeT(0, 0), TimeT(19875, 43200), TimeT(19722, 86399)}

\* the registers as rtc_init leaves them on a first boot
InitCal ==
    /\ pc = "idle"
    /\ arg = Nil
    /\ ObsQuiet /\ F1Reset /\ BootQuiet /\ KeyQuiet /\ AlmQuiet /\ HistQuiet
    /\ RTC_DR = HAL_RTC_SetDate(set_rtc_date(localtime(TimeT(0, 0))))
    /\ RTC_TR = HAL_RTC_SetTime(set_rtc_time(localtime(TimeT(0, 0))))
    /\ RTC_CR_BKP = 0
    /\ now_time = Tm(0, 0, 0, 0, 0, 0, 0, 0, 0)

Cal_rtc_set_time ==
    \E c \in ValidCalInputs :
        /\ rtc_set_time(c)
        /\ arg' = c
        /\ last_set' = c
        /\ ticks' = 0
        /\ op' = "rtc_set_time"
        /\ ret' = Nil
        /\ UNCHANGED <<pc, out, set_calls, now_time>>
        /\ UNCHANGED <<f1Vars, bootVars, keyVars>>
        /\ UNCHANGED almVars
        /\ clock_written' = TRUE
        /\ UNCHANGED <<held, stored, rdy_at_exit, dr1_reads, dr1_writes, resets>>

\* void rtc_set_time_t(const time_t *_time)
Cal_rtc_set_time_t ==
    \E t \in CalStamps :
        /\ rtc_set_time(localtime(t))
        /\ arg' = t
        /\ last_set' = localtime(t)
        /\ ticks' = 0
        /\ op' = "rtc_set_time_t"
        /\ ret' = Nil
        /\ UNCHANGED <<pc, out, set_calls, now_time>>
        /\ UNCHANGED <<f1Vars, bootVars, keyVars>>
        /\ UNCHANGED almVars
        /\ clock_written' = TRUE
        /\ UNCHANGED <<held, stored, rdy_at_exit, dr1_reads, dr1_writes, resets>>

\* struct tm *rtc_get_time(void)
Cal_rtc_get_time ==
    /\ now_time.tm_yday <= MaxYday
    /\ now_time' = rtc_get_time
    /\ ret' = now_time'
    /\ op' = "rtc_get_time"
    /\ arg' = Nil
    /\ elapsed' = 0
    /\ UNCHANGED <<pc, out, last_set, ticks, set_calls>>
    /\ UNCHANGED <<RTC_DR, RTC_TR, RTC_CR_BKP>>
    /\ UNCHANGED <<f1Vars, bootVars, keyVars>>
    /\ UNCHANGED almVars
    /\ UNCHANGED histVars

\* time_t rtc_get_time_t(void): time(NULL) = mktime(rtc_get_time())
Cal_rtc_get_time_t ==
    /\ now_time.tm_yday <= MaxYday
    /\ now_time' = mktime_fill(rtc_get_time)
    /\ ret' = mktime(rtc_get_time)
    /\ op' = "rtc_get_time_t"
    /\ arg' = Nil
    /\ elapsed' = 0
    /\ UNCHANGED <<pc, out, last_set, ticks, set_calls>>
    /\ UNCHANGED <<RTC_DR, RTC_TR, RTC_CR_BKP>>
    /\ UNCHANGED <<f1Vars, bootVars, keyVars>>
    /\ UNCHANGED almVars
    /\ UNCHANGED histVars

HwSecondF4 ==
    /\ ticks < MaxTicks
    /\ ticks' = ticks + 1
    /\ RTC_DR' = F4NextSecond(RTC_DR, RTC_TR)[1]
    /\ RTC_TR' = F4NextSecond(RTC_DR, RTC_TR)[2]
    /\ UNCHANGED <<pc, op, arg, ret, out, elapsed, last_set, set_calls>>
    /\ UNCHANGED <<RTC_CR_BKP, now_time>>
    /\ UNCHANGED <<f1Vars, bootVars, keyVars>>
    /\ UNCHANGED almVars
    /\ UNCHANGED histVars

NextCal ==
    \/ Cal_rtc_set_time
    \/ Cal_rtc_set_time_t
    \/ Cal_rtc_get_time
    \/ Cal_rtc_get_time_t
    \/ HwSecondF4

SpecCal == InitCal /\ [][NextCal]_vars

\* a read that directly follows a set: no second has passed in between
ReadAfterSet ==
    /\ op = "rtc_get_time"
    /\ last_set # Nil
    /\ ticks = 0

\* C1: for every valid calendar time c with year >= 1970 and second 0..59,
\* rtc_set_time(c) followed by rtc_get_time() with no tick in between returns
\* the year, month, day, hour, minute and second of c.
C1_CalendarRoundTrip ==
    (ReadAfterSet /\ last_set.tm_year >= 70 /\ last_set.tm_sec \in 0..59) =>
        /\ ret.tm_year = last_set.tm_year
        /\ ret.tm_mon = last_set.tm_mon
        /\ ret.tm_mday = last_set.tm_mday
        /\ ret.tm_hour = last_set.tm_hour
        /\ ret.tm_min = last_set.tm_min
        /\ ret.tm_sec = last_set.tm_sec

\* C6: every rtc_get_time() returns a day-of-year equal to the month-table
\* sum over the months before the stored month, plus one in a leap year from
\* March on, and within 0..365.
C6_YdayIsMonthTableSum ==
    (op = "rtc_get_time") =>
        /\ ret.tm_yday = yday_of(ret.tm_year, ret.tm_mon)
        /\ ret.tm_yday \in 0..365

\* C7: after rtc_set_time(c), whatever c.tm_wday holds, the weekday returned
\* by the next rtc_get_time() is the true weekday of c's year/month/day.
C7_WeekdayIsDerived ==
    ReadAfterSet =>
        ret.tm_wday =
            (4 + DaysFromEpoch(1900 + last_set.tm_year, last_set.tm_mon,
                               last_set.tm_mday)) % 7

LowHalf_byteMask(t) == (t.d * 20864 + t.s) % 256

\* *_time & 0xffff, for t = d * 86400 + s (86400 = 65536 + 20864)
LowHalf(t) == (t.d * 20864 + t.s) % 65536

\* *_time >> 16, as the 16-bit register keeps it
HighHalf(t) == (t.d + ((t.d * 20864 + t.s) \div 65536)) % 65536

\* (RTC->CNTH << 16) | (RTC->CNTL & 0xffff) as a time_t
\* (h * 65536 + l = 128 * q + l % 128 with q = h * 512 + l div 128,
\*  and 86400 = 128 * 675)
Assemble(h, l) ==
    LET q == h * 512 + ((l % 65536) \div 128)
    IN  TimeT(q \div 675, (q % 675) * 128 + (l % 128))

\* a write to CNTL/CNTH is taken only in configuration mode with the backup
\* domain unlocked
WriteAllowed == RTC_CRL.CNF = 1 /\ PWR_CR_DBP = 1

\* where the main flow goes when rtc_set_time_t returns
SetReturn == IF caller = "rtc_init" THEN "init_nvic" ELSE "idle"

\* lines 139-141: __HAL_RCC_PWR_CLK_ENABLE .. HAL_PWR_EnableBkUpAccess
F1_set_enable ==
    /\ pc = "set_enable"
    /\ PWR_CR_DBP' = 1
    /\ pc' = "set_cnf"
    /\ UNCHANGED <<op, arg, ret, out, elapsed, last_set, ticks, set_calls>>
    /\ UNCHANGED <<f4Vars, f1Vars, keyVars>>
    /\ UNCHANGED <<backend, BKP_DR1, RCC_BDCR, bkp_flag, retry, lse_ok, polls,
                   boot_DR1, boot_clock, caller>>
    /\ UNCHANGED almVars
    /\ UNCHANGED histVars

\* line 144: RTC->CRL |= 1 << 4
F1_set_cnf ==
    /\ pc = "set_cnf"
    /\ RTC_CRL' = [RTC_CRL EXCEPT !.CNF = 1]
    /\ pc' = "set_cntl"
    /\ UNCHANGED <<op, arg, ret, out, elapsed, last_set, ticks, set_calls>>
    /\ UNCHANGED <<RTC_CNTL, RTC_CNTH, RTC_ALRL, RTC_ALRH, RTC_CRH_ALRIE, rd>>
    /\ UNCHANGED <<f4Vars, bootVars, keyVars>>
    /\ UNCHANGED almVars
    /\ UNCHANGED histVars

\* line 146: RTC->CNTL = *_time & 0xffff
F1_set_cntl ==
    /\ pc = "set_cntl"
    /\ RTC_CNTL' = IF WriteAllowed THEN LowHalf(arg) ELSE RTC_CNTL
    /\ pc' = "set_cnth"
    /\ UNCHANGED <<op, arg, ret, out, elapsed, last_set, ticks, set_calls>>
    /\ UNCHANGED <<RTC_CNTH, RTC_ALRL, RTC_ALRH, RTC_CRL, RTC_CRH_ALRIE, rd>>
    /\ UNCHANGED <<f4Vars, bootVars, keyVars>>
    /\ UNCHANGED almVars
    /\ UNCHANGED histVars

\* line 147: RTC->CNTH = *_time >> 16
F1_set_cnth ==
    /\ pc = "set_cnth"
    /\ RTC_CNTH' = IF WriteAllowed THEN HighHalf(arg) ELSE RTC_CNTH
    /\ pc' = "set_clr"
    /\ UNCHANGED <<op, arg, ret, out, elapsed, last_set, ticks, set_calls>>
    /\ UNCHANGED <<RTC_CNTL, RTC_ALRL, RTC_ALRH, RTC_CRL, RTC_CRH_ALRIE, rd>>
    /\ UNCHANGED <<f4Vars, bootVars, keyVars>>
    /\ UNCHANGED almVars
    /\ clock_written' = (clock_written \/ WriteAllowed)
    /\ UNCHANGED <<held, stored, rdy_at_exit, dr1_reads, dr1_writes, resets>>

\* line 149: RTC->CRL &= ~(1 << 4); the hardware starts the register update
\* and drops RTOFF until it is complete
F1_set_clr ==
    /\ pc = "set_clr"
    /\ RTC_CRL' = [RTC_CRL EXCEPT !.CNF = 0, !.RTOFF = 0]
    /\ pc' = "set_wait"
    /\ UNCHANGED <<op, arg, ret, out, elapsed, last_set, ticks, set_calls>>
    /\ UNCHANGED <<RTC_CNTL, RTC_CNTH, RTC_ALRL, RTC_ALRH, RTC_CRH_ALRIE, rd>>
    /\ UNCHANGED <<f4Vars, bootVars, keyVars>>
    /\ UNCHANGED almVars
    /\ UNCHANGED histVars

\* lines 152-154: while (!RTOFF) ; then return
F1_set_wait ==
    /\ pc = "set_wait"
    /\ RTC_CRL.RTOFF = 1
    /\ pc' = SetReturn
    /\ op' = "rtc_set_time_t"
    /\ ret' = Nil
    /\ UNCHANGED <<arg, out, elapsed, last_set, ticks, set_calls>>
    /\ UNCHANGED <<f4Vars, f1Vars, bootVars, keyVars>>
    /\ UNCHANGED almVars
    /\ UNCHANGED histVars

\* hardware: the register update started by leaving configuration mode ends
HwRtoff ==
    /\ RTC_CRL.RTOFF = 0
    /\ RTC_CRL' = [RTC_CRL EXCEPT !.RTOFF = 1]
    /\ UNCHANGED obsVars
    /\ UNCHANGED <<RTC_CNTL, RTC_CNTH, RTC_ALRL, RTC_ALRH, RTC_CRH_ALRIE, rd>>
    /\ UNCHANGED <<f4Vars, bootVars, keyVars>>
    /\ UNCHANGED almVars
    /\ UNCHANGED histVars

\* the counter value one second after (h, l), as the two halves
NextCount(h, l) ==
    [H |-> IF l = 65535 THEN (h + 1) % 65536 ELSE h, L |-> (l + 1) % 65536]

\* hardware: the counter counts one second (32 bits, wrapping); when it
\* reaches the alarm value the match flag ALRF is set and, with the rising
\* edge of EXTI line 17 selected, the line becomes pending
HwSecondF1 ==
    /\ ticks < MaxTicks
    /\ ticks' = ticks + 1
    /\ RTC_CNTL' = NextCount(RTC_CNTH, RTC_CNTL).L
    /\ RTC_CNTH' = NextCount(RTC_CNTH, RTC_CNTL).H
    /\ LET match == RTC_CNTL' = RTC_ALRL /\ RTC_CNTH' = RTC_ALRH
       IN  /\ RTC_CRL' = IF match THEN [RTC_CRL EXCEPT !.ALRF = 1] ELSE RTC_CRL
           /\ EXTI_RTC' = IF match /\ EXTI_RTC.RTSR = 1
                              THEN [EXTI_RTC EXCEPT !.PR = 1] ELSE EXTI_RTC
    /\ UNCHANGED <<pc, op, arg, ret, out, elapsed, last_set, set_calls>>
    /\ UNCHANGED <<RTC_ALRL, RTC_ALRH, RTC_CRH_ALRIE, rd>>
    /\ UNCHANGED <<f4Vars, bootVars, keyVars>>
    /\ UNCHANGED <<alarm_runs, runs_since_set, irq_at, last_alarm>>
    /\ held' = IF pc \in {"time_store", "time_read"}
                  THEN held \cup {Assemble(RTC_CNTH', RTC_CNTL')}
                  ELSE held
    /\ UNCHANGED <<stored, rdy_at_exit, dr1_reads, dr1_writes, clock_written, resets>>

(***************************************************************************)
(* F1 rtc.c: time(), reached through rtc_get_time_t                        *)
(***************************************************************************)
\* one register read of the expression: the two halves are read by separate
\* accesses whose order the language leaves to the compiler
F1_read_half ==
    /\ pc \in {"time_store", "time_read"}
    /\ Len(rd) < 2
    /\ \E half \in {"H", "L"} :
        /\ \A i \in 1..Len(rd) : rd[i][1] # half
        /\ rd' = Append(rd, <<half, IF half = "H" THEN RTC_CNTH ELSE RTC_CNTL>>)
    /\ UNCHANGED obsVars
    /\ UNCHANGED <<RTC_CNTL, RTC_CNTH, RTC_ALRL, RTC_ALRH, RTC_CRL, RTC_CRH_ALRIE>>
    /\ UNCHANGED <<f4Vars, bootVars, keyVars>>
    /\ UNCHANGED almVars
    /\ UNCHANGED histVars

\* the half named h among the two reads
HalfRead(h) == (CHOOSE i \in 1..2 : rd[i][1] = h)

\* lines 243-245: if (_time != NULL) *_time = (RTC->CNTH << 16) | (RTC->CNTL & 0xffff)
F1_time_store ==
    /\ pc = "time_store"
    /\ Len(rd) = 2
    /\ stored' = Assemble(rd[HalfRead("H")][2], rd[HalfRead("L")][2])
    /\ rd' = <<>>
    /\ pc' = "time_read"
    /\ UNCHANGED obsVarsButPc
    /\ UNCHANGED <<RTC_CNTL, RTC_CNTH, RTC_ALRL, RTC_ALRH, RTC_CRL, RTC_CRH_ALRIE>>
    /\ UNCHANGED <<f4Vars, bootVars, keyVars, almVars>>
    /\ UNCHANGED <<held, rdy_at_exit, dr1_reads, dr1_writes, clock_written, resets>>

\* line 246: return (RTC->CNTH << 16) | (RTC->CNTL & 0xffff)
F1_time_return ==
    /\ pc = "time_read"
    /\ Len(rd) = 2
    /\ ret' = Assemble(rd[HalfRead("H")][2], rd[HalfRead("L")][2])
    /\ rd' = <<>>
    /\ op' = IF stored = Nil THEN "rtc_get_time_t" ELSE "time"
    /\ pc' = "idle"
    /\ UNCHANGED <<arg, out, elapsed, last_set, ticks, set_calls>>
    /\ UNCHANGED <<RTC_CNTL, RTC_CNTH, RTC_ALRL, RTC_ALRH, RTC_CRL, RTC_CRH_ALRIE>>
    /\ UNCHANGED <<f4Vars, bootVars, keyVars>>
    /\ UNCHANGED almVars
    /\ UNCHANGED histVars

(***************************************************************************)
(* SpecCnt: the F1 API called from the main flow                           *)
(***************************************************************************)
\* timestamps d * 86400 + s spread over 0 .. 2^32 - 1: around 0, 2^16,
\* one day, 0x12345678, 2024-06-01 12:00:00, 2^31, 0xFFFF0000 and 2^32 - 1
CntDays == {0, 1, 3534, 19875, 24855, 49709}
CntSecs == {0, 1, 11647, 11648, 44160, 65535, 65536, 82296, 86399}
CntStamps ==
    {TimeT(d, s) : d \in CntDays, s \in CntSecs}
      \cup {TimeT(49710, 0), TimeT(49710, 23295)}

\* after rtc_init on a first boot: counter 0, backup domain unlocked
InitCnt ==
    /\ pc = "idle"
    /\ arg = Nil
    /\ ObsQuiet /\ F4Reset /\ F1Reset /\ KeyQuiet /\ AlmQuiet /\ HistQuiet
    /\ backend = "F1"
    /\ BKP_DR1 \in {RTC_USE_LSE, RTC_USE_LSI}
    /\ RCC_BDCR = [LSEON |-> 1,
                   LSERDY |-> IF BKP_DR1 = RTC_USE_LSE THEN 1 ELSE 0,
                   RTCSEL |-> IF BKP_DR1 = RTC_USE_LSE THEN "LSE" ELSE "LSI"]
    /\ PWR_CR_DBP = 1
    /\ bkp_flag = 0
    /\ retry = 0
    /\ lse_ok = (BKP_DR1 = RTC_USE_LSE)
    /\ polls = 0
    /\ boot_DR1 = 0
    /\ boot_clock = TimeT(0, 0)
    /\ caller = "main"

\* void rtc_set_time_t(const time_t *_time) is called
Cnt_call_set_time_t ==
    /\ pc = "idle"
    /\ \E t \in CntStamps :
        /\ arg' = t
        /\ last_set' = t
    /\ ticks' = 0
    /\ pc' = "set_enable"
    /\ UNCHANGED <<op, ret, out, elapsed, set_calls>>
    /\ UNCHANGED <<f4Vars, f1Vars, bootVars, keyVars>>
    /\ UNCHANGED almVars
    /\ held' = {}
    /\ stored' = Nil
    /\ UNCHANGED <<rdy_at_exit, dr1_reads, dr1_writes, clock_written, resets>>

\* time_t rtc_get_time_t(void) is called: time(NULL)
Cnt_call_get_time_t ==
    /\ pc = "idle"
    /\ pc' = "time_read"
    /\ arg' = Nil
    /\ rd' = <<>>
    /\ ret' = Nil
    /\ UNCHANGED <<op, out, elapsed, last_set, ticks, set_calls>>
    /\ UNCHANGED <<RTC_CNTL, RTC_CNTH, RTC_ALRL, RTC_ALRH, RTC_CRL, RTC_CRH_ALRIE>>
    /\ UNCHANGED <<f4Vars, bootVars, keyVars>>
    /\ UNCHANGED almVars
    /\ held' = {Assemble(RTC_CNTH, RTC_CNTL)}
    /\ stored' = Nil
    /\ UNCHANGED <<rdy_at_exit, dr1_reads, dr1_writes, clock_written, resets>>

\* time_t time(time_t *_time) is called with a non-NULL argument
Cnt_call_time ==
    /\ pc = "idle"
    /\ pc' = "time_store"
    /\ arg' = Nil
    /\ rd' = <<>>
    /\ held' = {Assemble(RTC_CNTH, RTC_CNTL)}
    /\ stored' = Nil
    /\ ret' = Nil
    /\ UNCHANGED <<op, out, elapsed, last_set, ticks, set_calls>>
    /\ UNCHANGED <<RTC_CNTL, RTC_CNTH, RTC_ALRL, RTC_ALRH, RTC_CRL, RTC_CRH_ALRIE>>
    /\ UNCHANGED <<f4Vars, bootVars, keyVars, almVars>>
    /\ UNCHANGED <<rdy_at_exit, dr1_reads, dr1_writes, clock_written, resets>>

NextCnt ==
    \/ Cnt_call_set_time_t
    \/ F1_set_enable
    \/ F1_set_cnf
    \/ F1_set_cntl
    \/ F1_set_cnth
    \/ F1_set_clr
    \/ F1_set_wait
    \/ Cnt_call_get_time_t
    \/ Cnt_call_time
    \/ F1_read_half
    \/ F1_time_store
    \/ F1_time_return
    \/ HwRtoff
    \/ HwSecondF1

SpecCnt == InitCnt /\ [][NextCnt]_vars

\* C2: for every t in 0 .. 2^32 - 1, rtc_set_time_t(t) followed by
\* rtc_get_time_t() with no counter tick in between returns exactly t.
C2_CounterRoundTrip ==
    (op = "rtc_get_time_t" /\ pc = "idle" /\ last_set # Nil /\ ticks = 0) =>
        ret = last_set

\* 2^32 - 1 written and read back
C2_Witness ==
    /\ op = "rtc_get_time_t"
    /\ pc = "idle"
    /\ ticks = 0
    /\ last_set = TimeT(49710, 23295)
    /\ ret = TimeT(49710, 23295)
    /\ RTC_CNTH = 65535
    /\ RTC_CNTL = 65535

(***************************************************************************)
(* rtc_init -> HAL_RTC_Init -> HAL_RTC_MspInit (both builds)               *)
(***************************************************************************)
ValidTags == {RTC_USE_LSE, RTC_USE_LSI}

\* mutant: || instead of &&, true of every marker
NeedReset_or(flag) == (flag # RTC_USE_LSE) \/ (flag # RTC_USE_LSI)

\* (bkp_flag != RTC_USE_LSE) && (bkp_flag != RTC_USE_LSI)
NeedReset(flag) == (flag # RTC_USE_LSE) /\ (flag # RTC_USE_LSI)

\* the clock read back as a timestamp: time() of the build
ClockValue ==
    IF backend = "F1" THEN Assemble(RTC_CNTH, RTC_CNTL) ELSE mktime(rtc_get_time)

PlusSeconds(t, n) == TimeT(t.d + ((t.s + n) \div 86400), (t.s + n) % 86400)

\* F1 lines 33-38, F4 line 32: bkp_flag = HAL_RTCEx_BKUPRead(.., RTC_BKP_DR1)
\* (the F1 build enables backup access first)
Init_read_marker ==
    /\ pc = "init_start"
    /\ bkp_flag' = BKP_DR1
    /\ PWR_CR_DBP' = IF backend = "F1" THEN 1 ELSE PWR_CR_DBP
    /\ pc' = "msp_start"
    /\ UNCHANGED <<op, arg, ret, out, elapsed, last_set, ticks, set_calls>>
    /\ UNCHANGED <<backend, BKP_DR1, RCC_BDCR, retry, lse_ok, polls, boot_DR1,
                   boot_clock, caller>>
    /\ UNCHANGED <<f4Vars, f1Vars, keyVars>>
    /\ UNCHANGED almVars
    /\ dr1_reads' = dr1_reads + 1
    /\ UNCHANGED <<held, stored, rdy_at_exit, dr1_writes, clock_written, resets>>

\* HAL_RTC_Init calls HAL_RTC_MspInit (the handle is in its reset state after
\* every boot); F1 lines 74-82: retry = 200, backup access, RCC->BDCR |= 1
Msp_start ==
    /\ pc = "msp_start"
    /\ retry' = RETRY_INIT
    /\ PWR_CR_DBP' = 1
    /\ RCC_BDCR' = [RCC_BDCR EXCEPT !.LSEON = 1]
    /\ pc' = "msp_test"
    /\ UNCHANGED <<op, arg, ret, out, elapsed, last_set, ticks, set_calls>>
    /\ UNCHANGED <<backend, BKP_DR1, bkp_flag, lse_ok, polls, boot_DR1,
                   boot_clock, caller>>
    /\ UNCHANGED <<f4Vars, f1Vars, keyVars>>
    /\ UNCHANGED almVars
    /\ UNCHANGED histVars

\* F1 line 84: while (retry && ((RCC->BDCR & 0X02) == 0))
Msp_test ==
    /\ pc = "msp_test"
    /\ pc' = IF retry # 0 /\ RCC_BDCR.LSERDY = 0 THEN "msp_delay" ELSE "msp_select"
    /\ rdy_at_exit' = IF pc' = "msp_select" THEN RCC_BDCR.LSERDY ELSE rdy_at_exit
    /\ UNCHANGED <<op, arg, ret, out, elapsed, last_set, ticks, set_calls>>
    /\ UNCHANGED <<f4Vars, f1Vars, bootVars, keyVars>>
    /\ UNCHANGED almVars
    /\ UNCHANGED <<held, stored, dr1_reads, dr1_writes, clock_written, resets>>

\* F1 lines 86-87: retry--; HAL_Delay(5)
Msp_delay ==
    /\ pc = "msp_delay"
    /\ retry' = retry - 1
    /\ polls' = polls + 1
    /\ pc' = "msp_test"
    /\ UNCHANGED <<op, arg, ret, out, elapsed, last_set, ticks, set_calls>>
    /\ UNCHANGED <<backend, BKP_DR1, RCC_BDCR, PWR_CR_DBP, bkp_flag, lse_ok,
                   boot_DR1, boot_clock, caller>>
    /\ UNCHANGED <<f4Vars, f1Vars, keyVars>>
    /\ UNCHANGED almVars
    /\ UNCHANGED histVars

\* mutant: the external tag is written whatever was selected
Msp_select_fixedTag ==
    /\ pc = "msp_select"
    /\ RCC_BDCR' = [RCC_BDCR EXCEPT !.RTCSEL = IF retry = 0 THEN "LSI" ELSE "LSE"]
    /\ BKP_DR1' = IF PWR_CR_DBP = 1 THEN RTC_USE_LSE ELSE BKP_DR1
    /\ pc' = "init_check"
    /\ UNCHANGED <<op, arg, ret, out, elapsed, last_set, ticks, set_calls>>
    /\ UNCHANGED <<backend, PWR_CR_DBP, bkp_flag, retry, lse_ok, polls, boot_DR1,
                   boot_clock, caller>>
    /\ UNCHANGED <<f4Vars, f1Vars, keyVars>>
    /\ UNCHANGED almVars
    /\ dr1_writes' = dr1_writes + 1
    /\ UNCHANGED <<held, stored, rdy_at_exit, dr1_reads, clock_written, resets>>

\* F1 lines 90-111: if (retry == 0) LSI and marker RTC_USE_LSI, else LSE and
\* marker RTC_USE_LSE
Msp_select ==
    /\ pc = "msp_select"
    /\ RCC_BDCR' = [RCC_BDCR EXCEPT !.RTCSEL = IF retry = 0 THEN "LSI" ELSE "LSE"]
    /\ BKP_DR1' = IF PWR_CR_DBP = 1
                     THEN (IF retry = 0 THEN RTC_USE_LSI ELSE RTC_USE_LSE)
                     ELSE BKP_DR1
    /\ pc' = "init_check"
    /\ UNCHANGED <<op, arg, ret, out, elapsed, last_set, ticks, set_calls>>
    /\ UNCHANGED <<backend, PWR_CR_DBP, bkp_flag, retry, lse_ok, polls, boot_DR1,
                   boot_clock, caller>>
    /\ UNCHANGED <<f4Vars, f1Vars, keyVars>>
    /\ UNCHANGED almVars
    /\ dr1_writes' = dr1_writes + 1
    /\ UNCHANGED <<held, stored, rdy_at_exit, dr1_reads, clock_written, resets>>

\* F4 lines 48-52: printf, rtc_set_time_t(&init_time) with init_time = 0
Init_reset_F4 ==
    /\ pc = "init_check"
    /\ backend = "F4"
    /\ NeedReset(bkp_flag)
    /\ out' = Append(out, "RTC reseted! Reset to 1970-01-01 0:00:00")
    /\ rtc_set_time(localtime(TimeT(0, 0)))
    /\ arg' = TimeT(0, 0)
    /\ last_set' = localtime(TimeT(0, 0))
    /\ ticks' = 0
    /\ pc' = "init_nvic"
    /\ UNCHANGED <<op, ret, set_calls, now_time>>
    /\ UNCHANGED <<f1Vars, bootVars, keyVars>>
    /\ UNCHANGED almVars
    /\ clock_written' = TRUE
    /\ UNCHANGED <<held, stored, rdy_at_exit, dr1_reads, dr1_writes, resets>>

\* F1 lines 50-53: printf, rtc_set_time_t(&init_time) with init_time = 0
Init_reset_F1 ==
    /\ pc = "init_check"
    /\ backend = "F1"
    /\ NeedReset(bkp_flag)
    /\ out' = Append(out, "RTC reseted! Reset to 1970-01-01 0:00:00")
    /\ arg' = TimeT(0, 0)
    /\ last_set' = TimeT(0, 0)
    /\ ticks' = 0
    /\ caller' = "rtc_init"
    /\ pc' = "set_enable"
    /\ UNCHANGED <<op, ret, elapsed, set_calls>>
    /\ UNCHANGED <<backend, BKP_DR1, RCC_BDCR, PWR_CR_DBP, bkp_flag, retry,
                   lse_ok, polls, boot_DR1, boot_clock>>
    /\ UNCHANGED <<f4Vars, f1Vars, keyVars>>
    /\ UNCHANGED almVars
    /\ UNCHANGED histVars

\* the marker read at boot was a valid tag: the if is skipped
Init_no_reset ==
    /\ pc = "init_check"
    /\ ~NeedReset(bkp_flag)
    /\ pc' = "init_nvic"
    /\ UNCHANGED <<op, arg, ret, out, elapsed, last_set, ticks, set_calls>>
    /\ UNCHANGED <<f4Vars, f1Vars, bootVars, keyVars>>
    /\ UNCHANGED almVars
    /\ UNCHANGED histVars

\* F1 lines 56-58: the alarm interrupt is enabled, rtc_init returns
Init_nvic ==
    /\ pc = "init_nvic"
    /\ pc' = "init_done"
    /\ op' = "rtc_init"
    /\ UNCHANGED <<arg, ret, out, elapsed, last_set, ticks, set_calls>>
    /\ UNCHANGED <<f4Vars, f1Vars, bootVars, keyVars>>
    /\ UNCHANGED almVars
    /\ UNCHANGED histVars

\* hardware: a working crystal that has been switched on becomes ready
HwLseReady ==
    /\ RCC_BDCR.LSEON = 1
    /\ RCC_BDCR.LSERDY = 0
    /\ lse_ok
    /\ RCC_BDCR' = [RCC_BDCR EXCEPT !.LSERDY = 1]
    /\ UNCHANGED obsVars
    /\ UNCHANGED <<backend, BKP_DR1, PWR_CR_DBP, bkp_flag, retry, lse_ok, polls,
                   boot_DR1, boot_clock, caller>>
    /\ UNCHANGED <<f4Vars, f1Vars, keyVars>>
    /\ UNCHANGED almVars
    /\ UNCHANGED histVars

(***************************************************************************)
(* SpecBoot: one boot of either build from any backup-domain content       *)
(***************************************************************************)
\* DR1 after a power loss (0), the two tags, and two other values
BootMarkers == {0, RTC_USE_LSE, RTC_USE_LSI, 20560, 65535}

\* the clock before the boot: the reset value or 2024-06-01 12:00:00
BootClockF4 ==
    {<<[Year |-> 0, Month |-> 1, Date |-> 1, WeekDay |-> 1],
       [Hours |-> 0, Minutes |-> 0, Seconds |-> 0]>>,
     <<HAL_RTC_SetDate(set_rtc_date(localtime(TimeT(19875, 43200)))),
       HAL_RTC_SetTime(set_rtc_time(localtime(TimeT(19875, 43200))))>>}
BootClockF1 == {TimeT(0, 0), TimeT(19875, 43200)}

InitBoot ==
    /\ pc = "init_start"
    /\ arg = Nil
    /\ ObsQuiet /\ KeyQuiet /\ AlmQuiet /\ HistQuiet
    /\ backend \in {"F4", "F1"}
    /\ \E c \in BootClockF4 :
        /\ RTC_DR = (IF backend = "F4" THEN c[1] ELSE [Year |-> 0, Month |-> 1, Date |-> 1, WeekDay |-> 1])
        /\ RTC_TR = (IF backend = "F4" THEN c[2] ELSE [Hours |-> 0, Minutes |-> 0, Seconds |-> 0])
    /\ RTC_CR_BKP = 0
    /\ now_time = Tm(0, 0, 0, 0, 0, 0, 0, 0, 0)
    /\ \E t \in BootClockF1 :
        /\ RTC_CNTL = (IF backend = "F1" THEN LowHalf(t) ELSE 0)
        /\ RTC_CNTH = (IF backend = "F1" THEN HighHalf(t) ELSE 0)
    /\ RTC_ALRL = 65535
    /\ RTC_ALRH = 65535
    /\ RTC_CRL = [CNF |-> 0, RTOFF |-> 1, ALRF |-> 0]
    /\ RTC_CRH_ALRIE = 0
    /\ rd = <<>>
    /\ BKP_DR1 \in BootMarkers
    /\ lse_ok \in BOOLEAN
    /\ \E on \in {0, 1} :
        /\ (on = 1) => lse_ok
        /\ RCC_BDCR = [LSEON |-> on, LSERDY |-> on,
                       RTCSEL |-> IF BKP_DR1 = RTC_USE_LSE THEN "LSE"
                                  ELSE IF BKP_DR1 = RTC_USE_LSI THEN "LSI"
                                  ELSE None]
    /\ PWR_CR_DBP = 0
    /\ bkp_flag = 0
    /\ retry = 0
    /\ polls = 0
    /\ boot_DR1 = BKP_DR1
    /\ boot_clock = ClockValue
    /\ caller = "main"

NextBoot ==
    \/ Init_read_marker
    \/ Msp_start
    \/ Msp_test
    \/ Msp_delay
    \/ Msp_select
    \/ Init_reset_F4
    \/ Init_reset_F1
    \/ Init_no_reset
    \/ Init_nvic
    \/ F1_set_enable
    \/ F1_set_cnf
    \/ F1_set_cntl
    \/ F1_set_cnth
    \/ F1_set_clr
    \/ F1_set_wait
    \/ HwRtoff
    \/ HwLseReady
    \/ (backend = "F4" /\ HwSecondF4)
    \/ (backend = "F1" /\ HwSecondF1)

SpecBoot == InitBoot /\ [][NextBoot]_vars

\* C3: when the marker read at boot is neither tag, then after rtc_init
\* returns the clock read back as a timestamp is 0 and DR1 holds a valid tag.
C3_ResetToEpoch ==
    (pc = "init_done" /\ boot_DR1 \notin ValidTags /\ ticks = 0) =>
        /\ ClockValue = TimeT(0, 0)
        /\ BKP_DR1 \in ValidTags

\* C4: when the marker at boot is a valid tag, the boot does not execute the
\* oscillator probe at all: the LSE is not started and polled, no 5 ms poll.
C4_NoProbeOnValidMarker ==
    (boot_DR1 \in ValidTags) =>
        /\ pc \notin {"msp_test", "msp_delay", "msp_select"}
        /\ polls = 0

Digits == <<"0", "1", "2", "3", "4", "5", "6", "7", "8", "9">>
IsDigit(c) == \E i \in 1..10 : Digits[i] = c
DigitVal(c) == (CHOOSE i \in 1..10 : Digits[i] = c) - 1
IsSpace(c) == c \in {" ", "\t", "\r", "\n"}

RECURSIVE SkipSpace(_, _)
SkipSpace(str, i) ==
    IF i <= Len(str) /\ IsSpace(str[i]) THEN SkipSpace(str, i + 1) ELSE i

RECURSIVE ScanDigits(_, _, _)
ScanDigits(str, i, acc) ==
    IF i <= Len(str) /\ IsDigit(str[i])
        THEN ScanDigits(str, i + 1, acc * 10 + DigitVal(str[i]))
        ELSE <<acc, i>>

\* one %d from position i0: <<converted, value, next position>>
ScanInt(str, i0) ==
    LET i == SkipSpace(str, i0)
        neg == i <= Len(str) /\ str[i] = "-"
        pos == i <= Len(str) /\ str[i] = "+"
        j == IF neg \/ pos THEN i + 1 ELSE i
        r == ScanDigits(str, j, 0)
    IN  IF r[2] = j THEN <<FALSE, 0, i0>>
        ELSE <<TRUE, IF neg THEN 0 - r[1] ELSE r[1], r[2]>>

ScanFormat == <<"%d", "-", "%d", "-", "%d", " ", "%d", ":", "%d", ":", "%d">>

\* the values converted, in order, up to the first directive that fails
RECURSIVE ScanFrom(_, _, _, _)
ScanFrom(str, k, i, vals) ==
    IF k > Len(ScanFormat) THEN vals
    ELSE IF ScanFormat[k] = "%d"
        THEN LET r == ScanInt(str, i)
             IN  IF r[1] THEN ScanFrom(str, k + 1, r[3], Append(vals, r[2]))
                 ELSE vals
    ELSE IF ScanFormat[k] = " "
        THEN ScanFrom(str, k + 1, SkipSpace(str, i), vals)
    ELSE IF i <= Len(str) /\ str[i] = ScanFormat[k]
        THEN ScanFrom(str, k + 1, i + 1, vals)
    ELSE vals

\* main.c lines 68-70: the fields of tm that sscanf fills, the others kept
sscanf(str, tm) ==
    LET v == ScanFrom(str, 1, 1, <<>>)
        n == Len(v)
    IN  [tm EXCEPT !.tm_year = IF n >= 1 THEN v[1] ELSE @,
                   !.tm_mon = IF n >= 2 THEN v[2] ELSE @,
                   !.tm_mday = IF n >= 3 THEN v[3] ELSE @,
                   !.tm_hour = IF n >= 4 THEN v[4] ELSE @,
                   !.tm_min = IF n >= 5 THEN v[5] ELSE @,
                   !.tm_sec = IF n >= 6 THEN v[6] ELSE @]

\* main.c lines 78-79: input_time.tm_year -= 1900; input_time.tm_mon -= 1
AdjustInput(tm) == [tm EXCEPT !.tm_year = @ - 1900, !.tm_mon = @ - 1]

(***************************************************************************)
(* main.c: rtc_key_set_time                                                *)
(***************************************************************************)
\* "2024-06-01 12:00:00"
Line2024 ==
    <<"2", "0", "2", "4", "-", "0", "6", "-", "0", "1", " ", "1", "2", ":",
      "0", "0", ":", "0", "0">>
\* "2016-12-31 23:59:60"
LineLeap ==
    <<"2", "0", "1", "6", "-", "1", "2", "-", "3", "1", " ", "2", "3", ":",
      "5", "9", ":", "6", "0">>
\* "2023-03-01  7:05:09": free-form white space before a field
LineLoose ==
    <<"2", "0", "2", "3", "-", "0", "3", "-", "0", "1", " ", " ", "7", ":",
      "0", "5", ":", "0", "9">>
\* lines that do not match the pattern: no field, two fields, one field
LineWords ==
    <<"h", "e", "l", "l", "o">>
LineShort ==
    <<"2", "0", "2", "4", "-", "0", "6">>
LineSlash ==
    <<"2", "0", "2", "4", "/", "0", "6", "/", "0", "1", " ", "1", "2", ":", "0",
      "0", ":", "0", "0">>
KeyLines == {Line2024, LineLeap, LineLoose, LineWords, LineShort, LineSlash}

\* instants of the millisecond tick that the protocol can tell apart
KeyInstants == {0, 1, 500, 999, 1000, 1001, 9999, 10000, 10001, 10999, 11000, 11001}

\* HAL_GetTick() - start_time (the tick stays far below 2^32 here)
Waited == uwTick - start_time

\* lines 40-42: prompt, start_time = HAL_GetTick()
Key_begin ==
    /\ pc = "key_begin"
    /\ out' = Append(out, "Press KEY0 to set time, wait 1 seconds...")
    /\ start_time' = uwTick
    /\ pc' = "key_scan"
    /\ UNCHANGED <<op, arg, ret, elapsed, last_set, ticks, set_calls>>
    /\ UNCHANGED <<uwTick, key, buffer, input_time, key_at, line_at>>
    /\ UNCHANGED <<f4Vars, f1Vars, bootVars>>
    /\ UNCHANGED almVars
    /\ UNCHANGED histVars

\* lines 47-50: key = key_scan(0); break when it is KEY0_PRESS
Key_scan ==
    /\ pc = "key_scan"
    /\ \E k \in {"KEY0_PRESS", "KEY_NONE"} :
        /\ key' = k
        /\ key_at' = IF k = "KEY0_PRESS" THEN Waited ELSE key_at
        /\ pc' = IF k = "KEY0_PRESS" THEN "key_check" ELSE "key_while"
    /\ UNCHANGED obsVarsButPc
    /\ UNCHANGED <<uwTick, start_time, buffer, input_time, line_at>>
    /\ UNCHANGED <<f4Vars, f1Vars, bootVars>>
    /\ UNCHANGED almVars
    /\ UNCHANGED histVars

\* line 51: while (HAL_GetTick() - start_time < 1000)
Key_while ==
    /\ pc = "key_while"
    /\ pc' = IF Waited < KEY_WAIT_MS THEN "key_scan" ELSE "key_check"
    /\ UNCHANGED obsVarsButPc
    /\ UNCHANGED <<f4Vars, f1Vars, bootVars, keyVars>>
    /\ UNCHANGED almVars
    /\ UNCHANGED histVars

\* mutant: the check after the key loop is dropped
Key_check_dropped ==
    /\ pc = "key_check"
    /\ pc' = "line_begin"
    /\ UNCHANGED obsVarsButPc
    /\ UNCHANGED <<f4Vars, f1Vars, bootVars, keyVars>>
    /\ UNCHANGED almVars
    /\ UNCHANGED histVars

\* lines 53-55: if (HAL_GetTick() - start_time >= 1000) return
Key_check ==
    /\ pc = "key_check"
    /\ pc' = IF Waited >= KEY_WAIT_MS THEN "key_return" ELSE "line_begin"
    /\ UNCHANGED obsVarsButPc
    /\ UNCHANGED <<f4Vars, f1Vars, bootVars, keyVars>>
    /\ UNCHANGED almVars
    /\ UNCHANGED histVars

\* lines 57-63: start_time = HAL_GetTick(); prompt; input_time = {0}
Line_begin ==
    /\ pc = "line_begin"
    /\ start_time' = uwTick
    /\ out' = Append(out, "Please input date & time")
    /\ input_time' = Tm(0, 0, 0, 0, 0, 0, 0, 0, 0)
    /\ pc' = "line_read"
    /\ UNCHANGED <<op, arg, ret, elapsed, last_set, ticks, set_calls>>
    /\ UNCHANGED <<uwTick, key, buffer, key_at, line_at>>
    /\ UNCHANGED <<f4Vars, f1Vars, bootVars>>
    /\ UNCHANGED almVars
    /\ UNCHANGED histVars

\* lines 67-72: uart_dmarx_read returned a line: sscanf, break
Line_read_got ==
    /\ pc = "line_read"
    /\ \E line \in KeyLines :
        /\ buffer' = line
        /\ input_time' = sscanf(line, input_time)
    /\ line_at' = Waited
    /\ pc' = "line_check"
    /\ UNCHANGED obsVarsButPc
    /\ UNCHANGED <<uwTick, start_time, key, key_at>>
    /\ UNCHANGED <<f4Vars, f1Vars, bootVars>>
    /\ UNCHANGED almVars
    /\ UNCHANGED histVars

\* line 67: uart_dmarx_read returned 0
Line_read_none ==
    /\ pc = "line_read"
    /\ pc' = "line_while"
    /\ UNCHANGED obsVarsButPc
    /\ UNCHANGED <<f4Vars, f1Vars, bootVars, keyVars>>
    /\ UNCHANGED almVars
    /\ UNCHANGED histVars

\* line 73: while (HAL_GetTick() - start_time < 10000)
Line_while ==
    /\ pc = "line_while"
    /\ pc' = IF Waited < LINE_WAIT_MS THEN "line_read" ELSE "line_check"
    /\ UNCHANGED obsVarsButPc
    /\ UNCHANGED <<f4Vars, f1Vars, bootVars, keyVars>>
    /\ UNCHANGED almVars
    /\ UNCHANGED histVars

\* lines 75-76: if (HAL_GetTick() - start_time >= 10000) timeout message
Line_timeout ==
    /\ pc = "line_check"
    /\ Waited >= LINE_WAIT_MS
    /\ out' = Append(out, "Wait input timeout.")
    /\ pc' = "key_return"
    /\ UNCHANGED <<op, arg, ret, elapsed, last_set, ticks, set_calls>>
    /\ UNCHANGED <<f4Vars, f1Vars, bootVars, keyVars>>
    /\ UNCHANGED almVars
    /\ UNCHANGED histVars

\* lines 77-82: adjust year and month, rtc_set_time(&input_time), message
Line_commit ==
    /\ pc = "line_check"
    /\ Waited < LINE_WAIT_MS
    /\ input_time' = AdjustInput(input_time)
    /\ rtc_set_time(input_time')
    /\ set_calls' = set_calls + 1
    /\ arg' = input_time'
    /\ last_set' = input_time'
    /\ ticks' = 0
    /\ out' = Append(out, "Time set.")
    /\ pc' = "key_return"
    /\ UNCHANGED <<op, ret, now_time>>
    /\ UNCHANGED <<uwTick, start_time, key, buffer, key_at, line_at>>
    /\ UNCHANGED <<f1Vars, bootVars>>
    /\ UNCHANGED almVars
    /\ clock_written' = TRUE
    /\ UNCHANGED <<held, stored, rdy_at_exit, dr1_reads, dr1_writes, resets>>

\* after the protocol the clock is read back as a timestamp: rtc_get_time_t
Key_read_back ==
    /\ pc = "key_return"
    /\ now_time' = mktime_fill(rtc_get_time)
    /\ ret' = mktime(rtc_get_time)
    /\ op' = "rtc_get_time_t"
    /\ pc' = "key_done"
    /\ UNCHANGED <<arg, out, elapsed, last_set, ticks, set_calls>>
    /\ UNCHANGED <<RTC_DR, RTC_TR, RTC_CR_BKP>>
    /\ UNCHANGED <<f1Vars, bootVars, keyVars>>
    /\ UNCHANGED almVars
    /\ UNCHANGED histVars

\* positions inside the two polling loops, where any time can go by
Polling == {"key_scan", "key_while", "line_read", "line_while"}

\* the millisecond tick advances while the protocol runs: by any amount over
\* the iterations of a polling loop, by one tick between two adjacent
\* statements
SysTick ==
    /\ pc \notin {"key_return", "key_done"}
    /\ \E t \in KeyInstants :
        /\ t > uwTick
        /\ pc \in Polling \/ t = uwTick + 1
        /\ uwTick' = t
    /\ UNCHANGED obsVars
    /\ UNCHANGED <<start_time, key, buffer, input_time, key_at, line_at>>
    /\ UNCHANGED <<f4Vars, f1Vars, bootVars>>
    /\ UNCHANGED almVars
    /\ UNCHANGED histVars

(***************************************************************************)
(* SpecKey: main() of record-imu-to-flash after bsp_init                   *)
(***************************************************************************)
InitKey ==
    /\ pc = "key_begin"
    /\ arg = Nil
    /\ ObsQuiet /\ F1Reset /\ KeyQuiet /\ AlmQuiet /\ HistQuiet
    /\ RTC_DR = HAL_RTC_SetDate(set_rtc_date(localtime(TimeT(0, 0))))
    /\ RTC_TR = HAL_RTC_SetTime(set_rtc_time(localtime(TimeT(0, 0))))
    /\ RTC_CR_BKP = 0
    /\ now_time = Tm(0, 0, 0, 0, 0, 0, 0, 0, 0)
    /\ backend = "F4"
    /\ BKP_DR1 \in ValidTags
    /\ RCC_BDCR = [LSEON |-> 1,
                   LSERDY |-> IF BKP_DR1 = RTC_USE_LSE THEN 1 ELSE 0,
                   RTCSEL |-> IF BKP_DR1 = RTC_USE_LSE THEN "LSE" ELSE "LSI"]
    /\ PWR_CR_DBP = 1
    /\ bkp_flag = 0
    /\ retry = 0
    /\ lse_ok = (BKP_DR1 = RTC_USE_LSE)
    /\ polls = 0
    /\ boot_DR1 = 0
    /\ boot_clock = TimeT(0, 0)
    /\ caller = "main"

NextKey ==
    \/ Key_begin
    \/ Key_scan
    \/ Key_while
    \/ Key_check
    \/ Line_begin
    \/ Line_read_got
    \/ Line_read_none
    \/ Line_while
    \/ Line_timeout
    \/ Line_commit
    \/ Key_read_back
    \/ SysTick
    \/ HwSecondF4

SpecKey == InitKey /\ [][NextKey]_vars

\* the key was seen inside the 1 s window and a line was read inside the
\* 10 s window that followed
KeyAndLineInTime ==
    /\ key_at \in 0..(KEY_WAIT_MS - 1)
    /\ line_at \in 0..(LINE_WAIT_MS - 1)

\* C10: whenever the key press is observed before the 1 s deadline and a
\* line then arrives before the 10 s deadline, rtc_key_set_time calls
\* rtc_set_time exactly once with the parsed fields (year - 1900, month - 1)
\* and reports success; for the line 2024-06-01 12:00:00 the timestamp read
\* back afterwards is exactly that calendar moment (1717243200).
C10_CommitPath ==
    /\ (pc \in {"key_return", "key_done"} /\ KeyAndLineInTime) =>
          /\ set_calls = 1
          /\ last_set = AdjustInput(sscanf(buffer, Tm(0, 0, 0, 0, 0, 0, 0, 0, 0)))
          /\ out[Len(out)] = "Time set."
    /\ (pc = "key_done" /\ KeyAndLineInTime /\ buffer = Line2024 /\ ticks = 0) =>
          ret = TimeT(19875, 43200)

\* what the code does guarantee: a commit happens exactly when the tick read
\* again at line 75 is still inside the window, and then the line
\* 2024-06-01 12:00:00 reads back as 1717243200
C10_CommitWhenRecheckInTime ==
    /\ (pc \in {"key_return", "key_done"} /\ set_calls = 1) =>
          /\ KeyAndLineInTime
          /\ last_set = AdjustInput(sscanf(buffer, Tm(0, 0, 0, 0, 0, 0, 0, 0, 0)))
          /\ out[Len(out)] = "Time set."
    /\ (pc = "key_done" /\ set_calls = 1 /\ buffer = Line2024 /\ ticks = 0) =>
          ret = TimeT(19875, 43200)
    /\ set_calls \in {0, 1}

\* the second prompt was printed: the protocol was armed
Armed == Len(out) >= 2 /\ out[2] = "Please input date & time"

\* C11: in every run of rtc_key_set_time where no key press is observed
\* inside the 1 s window, or where the protocol is armed but no line is read
\* inside the 10 s window, rtc_set_time is never called and the calendar
\* registers keep their value (apart from hardware seconds); in the second
\* case the timeout message is reported and the success message is not.
C11_NonCommitPaths ==
    (pc \in {"key_return", "key_done"}) =>
        /\ (key_at \notin 0..(KEY_WAIT_MS - 1)
              \/ (Armed /\ line_at \notin 0..(LINE_WAIT_MS - 1))) =>
              /\ set_calls = 0
              /\ last_set = Nil
              /\ ticks = 0 =>
                    /\ RTC_DR = HAL_RTC_SetDate(set_rtc_date(localtime(TimeT(0, 0))))
                    /\ RTC_TR = HAL_RTC_SetTime(set_rtc_time(localtime(TimeT(0, 0))))
        /\ (Armed /\ line_at \notin 0..(LINE_WAIT_MS - 1)) =>
              /\ out[Len(out)] = "Wait input timeout."
              /\ \A i \in 1..Len(out) : out[i] # "Time set."

\* armed, the window ran out with nothing read, timeout reported
C11_Witness ==
    /\ pc = "key_done"
    /\ key_at = 999
    /\ Armed
    /\ line_at = -1
    /\ Waited >= LINE_WAIT_MS
    /\ set_calls = 0
    /\ out[Len(out)] = "Wait input timeout."

\* no key inside the window: silent exit
C11_WitnessSilent ==
    /\ pc = "key_done"
    /\ key_at = -1
    /\ ~Armed
    /\ Len(out) = 1
    /\ set_calls = 0

(***************************************************************************)
(* F1 rtc.c: the alarm                                                     *)
(***************************************************************************)
\* mutant: the halves taken the wrong way round
rtc_get_alarm_t_swapped(h, l) == Assemble(l, h)

\* line 173: (time_t)((RTC->ALRH << 16) | (RTC->ALRL & 0xffff))
rtc_get_alarm_t(h, l) == Assemble(h, l)

\* lines 192-194: __HAL_RCC_PWR_CLK_ENABLE .. HAL_PWR_EnableBkUpAccess
Alm_enable ==
    /\ pc = "alm_enable"
    /\ PWR_CR_DBP' = 1
    /\ pc' = "alm_cnf"
    /\ UNCHANGED obsVarsButPc
    /\ UNCHANGED <<f4Vars, f1Vars, keyVars, almVars, histVars>>
    /\ UNCHANGED <<backend, BKP_DR1, RCC_BDCR, bkp_flag, retry, lse_ok, polls,
                   boot_DR1, boot_clock, caller>>

\* line 197: RTC->CRL |= 1 << 4
Alm_cnf ==
    /\ pc = "alm_cnf"
    /\ RTC_CRL' = [RTC_CRL EXCEPT !.CNF = 1]
    /\ pc' = "alm_alrl"
    /\ UNCHANGED obsVarsButPc
    /\ UNCHANGED <<RTC_CNTL, RTC_CNTH, RTC_ALRL, RTC_ALRH, RTC_CRH_ALRIE, rd>>
    /\ UNCHANGED <<f4Vars, bootVars, keyVars, almVars, histVars>>

\* line 199: RTC->ALRL = *_time & 0xffff
Alm_alrl ==
    /\ pc = "alm_alrl"
    /\ RTC_ALRL' = IF WriteAllowed THEN LowHalf(arg) ELSE RTC_ALRL
    /\ pc' = "alm_alrh"
    /\ UNCHANGED obsVarsButPc
    /\ UNCHANGED <<RTC_CNTL, RTC_CNTH, RTC_ALRH, RTC_CRL, RTC_CRH_ALRIE, rd>>
    /\ UNCHANGED <<f4Vars, bootVars, keyVars, almVars, histVars>>

\* line 200: RTC->ALRH = *_time >> 16
Alm_alrh ==
    /\ pc = "alm_alrh"
    /\ RTC_ALRH' = IF WriteAllowed THEN HighHalf(arg) ELSE RTC_ALRH
    /\ pc' = "alm_clr"
    /\ UNCHANGED obsVarsButPc
    /\ UNCHANGED <<RTC_CNTL, RTC_CNTH, RTC_ALRL, RTC_CRL, RTC_CRH_ALRIE, rd>>
    /\ UNCHANGED <<f4Vars, bootVars, keyVars, almVars, histVars>>

\* line 202: RTC->CRL &= ~(1 << 4); the hardware starts the register update
\* and drops RTOFF until it is complete
Alm_clr ==
    /\ pc = "alm_clr"
    /\ RTC_CRL' = [RTC_CRL EXCEPT !.CNF = 0, !.RTOFF = 0]
    /\ pc' = "alm_wait"
    /\ UNCHANGED obsVarsButPc
    /\ UNCHANGED <<RTC_CNTL, RTC_CNTH, RTC_ALRL, RTC_ALRH, RTC_CRH_ALRIE, rd>>
    /\ UNCHANGED <<f4Vars, bootVars, keyVars, almVars, histVars>>

\* mutant: the wait for RTOFF is left out
Alm_wait_skipped ==
    /\ pc = "alm_wait"
    /\ pc' = "alm_clear_flag"
    /\ UNCHANGED obsVarsButPc
    /\ UNCHANGED <<f4Vars, f1Vars, bootVars, keyVars, almVars, histVars>>

\* lines 205-206: while (!__HAL_RTC_ALARM_GET_FLAG(.., RTC_FLAG_RTOFF)) ;
Alm_wait ==
    /\ pc = "alm_wait"
    /\ RTC_CRL.RTOFF = 1
    /\ pc' = "alm_clear_flag"
    /\ UNCHANGED obsVarsButPc
    /\ UNCHANGED <<f4Vars, f1Vars, bootVars, keyVars, almVars, histVars>>

\* line 208: __HAL_RTC_ALARM_CLEAR_FLAG(&rtc_handle, RTC_FLAG_ALRAF)
Alm_clear_flag ==
    /\ pc = "alm_clear_flag"
    /\ RTC_CRL' = [RTC_CRL EXCEPT !.ALRF = 0]
    /\ pc' = "alm_enable_it"
    /\ UNCHANGED obsVarsButPc
    /\ UNCHANGED <<RTC_CNTL, RTC_CNTH, RTC_ALRL, RTC_ALRH, RTC_CRH_ALRIE, rd>>
    /\ UNCHANGED <<f4Vars, bootVars, keyVars, almVars, histVars>>

\* line 209: __HAL_RTC_ALARM_ENABLE_IT(&rtc_handle, RTC_IT_ALRA)
Alm_enable_it ==
    /\ pc = "alm_enable_it"
    /\ RTC_CRH_ALRIE' = 1
    /\ pc' = "alm_exti"
    /\ UNCHANGED obsVarsButPc
    /\ UNCHANGED <<RTC_CNTL, RTC_CNTH, RTC_ALRL, RTC_ALRH, RTC_CRL, rd>>
    /\ UNCHANGED <<f4Vars, bootVars, keyVars, almVars, histVars>>

\* lines 211-213: __HAL_RTC_ALARM_EXTI_ENABLE_IT,
\* __HAL_RTC_ALARM_EXTI_ENABLE_RISING_EDGE, return
Alm_exti ==
    /\ pc = "alm_exti"
    /\ EXTI_RTC' = [EXTI_RTC EXCEPT !.IMR = 1, !.RTSR = 1]
    /\ op' = "rtc_set_alarm_t"
    /\ ret' = Nil
    /\ pc' = "idle"
    /\ UNCHANGED <<arg, out, elapsed, last_set, ticks, set_calls>>
    /\ UNCHANGED <<alarm_runs, runs_since_set, irq_at, last_alarm>>
    /\ UNCHANGED <<f4Vars, f1Vars, bootVars, keyVars, histVars>>

\* mutant: the handler clears ALRF by writing the whole of CRL
RTC_Alarm_IRQHandler_writesCRL ==
    /\ EXTI_RTC.PR = 1
    /\ EXTI_RTC.IMR = 1
    /\ alarm_runs < MaxAlarms
    /\ IF RTC_CRH_ALRIE = 1 /\ RTC_CRL.ALRF = 1
          THEN /\ out' = Append(out, "Alarm")
               /\ alarm_runs' = alarm_runs + 1
               /\ runs_since_set' = runs_since_set + 1
               /\ RTC_CRL' = [RTC_CRL EXCEPT !.ALRF = 0, !.CNF = 0]
          ELSE UNCHANGED <<out, alarm_runs, runs_since_set, RTC_CRL>>
    /\ EXTI_RTC' = [EXTI_RTC EXCEPT !.PR = 0]
    /\ irq_at' = pc
    /\ UNCHANGED <<pc, op, arg, ret, elapsed, last_set, ticks, set_calls>>
    /\ UNCHANGED <<RTC_CNTL, RTC_CNTH, RTC_ALRL, RTC_ALRH, RTC_CRH_ALRIE, rd>>
    /\ UNCHANGED <<f4Vars, bootVars, keyVars, histVars>>
    /\ UNCHANGED last_alarm

\* mutant: the handler disables the alarm interrupt after the callback
RTC_Alarm_IRQHandler_oneShot ==
    /\ EXTI_RTC.PR = 1
    /\ EXTI_RTC.IMR = 1
    /\ alarm_runs < MaxAlarms
    /\ IF RTC_CRH_ALRIE = 1 /\ RTC_CRL.ALRF = 1
          THEN /\ out' = Append(out, "Alarm")
               /\ alarm_runs' = alarm_runs + 1
               /\ runs_since_set' = runs_since_set + 1
               /\ RTC_CRL' = [RTC_CRL EXCEPT !.ALRF = 0]
               /\ RTC_CRH_ALRIE' = 0
          ELSE UNCHANGED <<out, alarm_runs, runs_since_set, RTC_CRL, RTC_CRH_ALRIE>>
    /\ EXTI_RTC' = [EXTI_RTC EXCEPT !.PR = 0]
    /\ irq_at' = pc
    /\ UNCHANGED <<pc, op, arg, ret, elapsed, last_set, ticks, set_calls>>
    /\ UNCHANGED <<RTC_CNTL, RTC_CNTH, RTC_ALRL, RTC_ALRH, rd>>
    /\ UNCHANGED <<f4Vars, bootVars, keyVars, histVars>>
    /\ UNCHANGED last_alarm

\* lines 64-66 and 231-234: RTC_Alarm_IRQHandler -> HAL_RTC_AlarmIRQHandler:
\* with the alarm interrupt enabled and ALRF set, HAL_RTC_AlarmAEventCallback
\* prints and ALRF is cleared; the EXTI pending bit is cleared in any case.
\* The handler runs to completion between two steps of the main flow.
RTC_Alarm_IRQHandler ==
    /\ EXTI_RTC.PR = 1
    /\ EXTI_RTC.IMR = 1
    /\ alarm_runs < MaxAlarms
    /\ IF RTC_CRH_ALRIE = 1 /\ RTC_CRL.ALRF = 1
          THEN /\ out' = Append(out, "Alarm")
               /\ alarm_runs' = alarm_runs + 1
               /\ runs_since_set' = runs_since_set + 1
               /\ RTC_CRL' = [RTC_CRL EXCEPT !.ALRF = 0]
          ELSE UNCHANGED <<out, alarm_runs, runs_since_set, RTC_CRL>>
    /\ EXTI_RTC' = [EXTI_RTC EXCEPT !.PR = 0]
    /\ irq_at' = pc
    /\ UNCHANGED <<pc, op, arg, ret, elapsed, last_set, ticks, set_calls>>
    /\ UNCHANGED <<RTC_CNTL, RTC_CNTH, RTC_ALRL, RTC_ALRH, RTC_CRH_ALRIE, rd>>
    /\ UNCHANGED <<f4Vars, bootVars, keyVars, histVars>>
    /\ UNCHANGED last_alarm

(***************************************************************************)
(* SpecAlarm: the F1 alarm API, the time setter and the alarm interrupt    *)
(***************************************************************************)
\* alarm values: 0, 2^16 - 1, 2^16, 2024-06-01 12:00:00, 2^31, 2^32 - 1;
\* clock values one second before two of them
AlmStamps ==
    {TimeT(0, 0), TimeT(0, 65535), TimeT(0, 65536), TimeT(19875, 43200),
     TimeT(24855, 11648), TimeT(49710, 23295)}
AlmClocks == {TimeT(0, 65535), TimeT(19875, 43199)}

\* void rtc_set_alarm_t(const time_t *_time) is called
Alm_call_set_alarm_t ==
    /\ pc = "idle"
    /\ \E t \in AlmStamps :
        /\ arg' = t
        /\ last_alarm' = t
    /\ runs_since_set' = 0
    /\ pc' = "alm_enable"
    /\ UNCHANGED <<op, ret, out, elapsed, last_set, ticks, set_calls>>
    /\ UNCHANGED <<EXTI_RTC, alarm_runs, irq_at>>
    /\ UNCHANGED <<f4Vars, f1Vars, bootVars, keyVars, histVars>>

\* time_t rtc_get_alarm_t(void)
Alm_call_get_alarm_t ==
    /\ pc = "idle"
    /\ ret' = rtc_get_alarm_t(RTC_ALRH, RTC_ALRL)
    /\ op' = "rtc_get_alarm_t"
    /\ arg' = Nil
    /\ UNCHANGED <<pc, out, elapsed, last_set, ticks, set_calls>>
    /\ UNCHANGED <<f4Vars, f1Vars, bootVars, keyVars, almVars, histVars>>

NextAlarm ==
    \/ Alm_call_set_alarm_t
    \/ Alm_enable
    \/ Alm_cnf
    \/ Alm_alrl
    \/ Alm_alrh
    \/ Alm_clr
    \/ Alm_wait
    \/ Alm_clear_flag
    \/ Alm_enable_it
    \/ Alm_exti
    \/ Alm_call_get_alarm_t
    \/ (Cnt_call_set_time_t /\ arg' \in AlmClocks)
    \/ F1_set_enable
    \/ F1_set_cnf
    \/ F1_set_cntl
    \/ F1_set_cnth
    \/ F1_set_clr
    \/ F1_set_wait
    \/ HwRtoff
    \/ HwSecondF1
    \/ RTC_Alarm_IRQHandler

SpecAlarm == InitCnt /\ [][NextAlarm]_vars

\* C12: for every t in 0 .. 2^32 - 1, rtc_set_alarm_t(t) followed by
\* rtc_get_alarm_t() returns exactly t.
C12_AlarmRoundTrip ==
    (op = "rtc_get_alarm_t" /\ pc = "idle" /\ last_alarm # Nil) =>
        ret = last_alarm

\* 2^16 written to the alarm registers and read back
C12_Witness ==
    /\ op = "rtc_get_alarm_t"
    /\ pc = "idle"
    /\ last_alarm = TimeT(0, 65536)
    /\ ret = TimeT(0, 65536)
    /\ RTC_ALRH = 1
    /\ RTC_ALRL = 0

\* positions of the two setters at which a register half is written
HalfWrites == {"set_cntl", "set_cnth", "alm_alrl", "alm_alrh"}

\* positions of the two setters between the unlock and the end of the wait
InSetter == {"set_cnf", "set_cntl", "set_cnth", "set_clr", "set_wait",
             "alm_cnf", "alm_alrl", "alm_alrh", "alm_clr", "alm_wait"}

\* C13: in every execution of rtc_set_time_t and rtc_set_alarm_t backup
\* access is enabled first, the two halves are written only while CRL bit 4
\* is set, the bit is cleared after both writes, and the function does not
\* return (nor, for the alarm, clear the match flag or enable the interrupt)
\* before RTOFF has been seen set.
C13_WriteSequence ==
    [][ /\ (pc \in InSetter) => PWR_CR_DBP = 1
        /\ (pc \in HalfWrites /\ pc' # pc) => RTC_CRL.CNF = 1
        /\ (pc \in {"set_clr", "alm_clr"} /\ pc' # pc) => RTC_CRL'.CNF = 0
        /\ (pc \in {"set_wait", "alm_wait"} /\ pc' # pc) =>
              /\ RTC_CRL.RTOFF = 1
              /\ RTC_CRL.CNF = 0
        /\ (pc \in InSetter) =>
              /\ RTC_CRH_ALRIE' = RTC_CRH_ALRIE
              /\ EXTI_RTC'.IMR = EXTI_RTC.IMR
              /\ pc \in {"alm_cnf", "alm_alrl", "alm_alrh", "alm_clr", "alm_wait"} =>
                    (RTC_CRL.ALRF = 1 /\ alarm_runs' = alarm_runs => RTC_CRL'.ALRF = 1)
      ]_vars

\* rtc_set_alarm_t has returned: value in the registers, interrupt enabled
C13_Witness ==
    /\ pc = "idle"
    /\ op = "rtc_set_alarm_t"
    /\ RTC_CRL.RTOFF = 1
    /\ RTC_CRL.CNF = 0
    /\ RTC_CRH_ALRIE = 1
    /\ EXTI_RTC.IMR = 1
    /\ RTC_ALRH = 1
    /\ RTC_ALRL = 0
    /\ last_alarm = TimeT(0, 65536)

\* the alarm interrupt can be delivered: RTC side and EXTI line 17
AlarmArmed ==
    /\ RTC_CRH_ALRIE = 1
    /\ EXTI_RTC.IMR = 1
    /\ EXTI_RTC.RTSR = 1

\* C14: once rtc_set_alarm_t has armed the alarm it stays armed across any
\* number of matches: each run of the interrupt handler and callback leaves
\* the alarm interrupt enable and the alarm registers unchanged (and no other
\* step disarms it), and a match while armed makes the interrupt pending
\* again, so that the callback runs again without another set call.
C14_AlarmStaysArmed ==
    [][ /\ AlarmArmed => AlarmArmed'
        /\ (alarm_runs' # alarm_runs \/ EXTI_RTC'.PR < EXTI_RTC.PR) =>
              /\ RTC_CRH_ALRIE' = RTC_CRH_ALRIE
              /\ RTC_ALRL' = RTC_ALRL
              /\ RTC_ALRH' = RTC_ALRH
              /\ EXTI_RTC'.IMR = EXTI_RTC.IMR
              /\ EXTI_RTC'.RTSR = EXTI_RTC.RTSR
        /\ (AlarmArmed /\ ticks' = ticks + 1
              /\ RTC_CNTL' = RTC_ALRL /\ RTC_CNTH' = RTC_ALRH) =>
              /\ EXTI_RTC'.PR = 1
              /\ RTC_CRL'.ALRF = 1
        /\ (AlarmArmed /\ EXTI_RTC.PR = 1 /\ RTC_CRL.ALRF = 1
              /\ EXTI_RTC'.PR = 0) =>
              /\ alarm_runs' = alarm_runs + 1
              /\ out' = Append(out, "Alarm")
      ]_vars

\* the callback has run twice since the one rtc_set_alarm_t call, still armed
C14_Witness ==
    /\ runs_since_set = 2
    /\ last_alarm = TimeT(0, 65536)
    /\ AlarmArmed
    /\ RTC_ALRH = 1
    /\ RTC_ALRL = 0
    /\ Len(out) = 2
    /\ out[2] = "Alarm"

\* C15: the probe polls the ready bit at most 200 times and then ends
\* whatever the hardware does; if the ready bit is set at any point before
\* the budget expires (the last polling interval included) the external
\* source is selected and 0x8800 persisted, otherwise the internal source is
\* selected and 0x8801 persisted.
C15_ProbeOutcome ==
    /\ polls <= RETRY_INIT
    /\ (pc \in {"init_check", "init_nvic", "init_done"}) =>
          /\ rdy_at_exit = 1 =>
                /\ RCC_BDCR.RTCSEL = "LSE"
                /\ BKP_DR1 = RTC_USE_LSE
          /\ rdy_at_exit = 0 =>
                /\ RCC_BDCR.RTCSEL = "LSI"
                /\ BKP_DR1 = RTC_USE_LSI

\* what the code does: the outcome follows retry alone
C15_OutcomeFollowsRetry ==
    /\ polls <= RETRY_INIT
    /\ polls + retry = (IF pc \in {"init_start", "msp_start"} THEN 0 ELSE RETRY_INIT)
    /\ (pc \in {"init_check", "init_nvic", "init_done"}) =>
          /\ retry # 0 =>
                /\ rdy_at_exit = 1
                /\ RCC_BDCR.RTCSEL = "LSE"
                /\ BKP_DR1 = RTC_USE_LSE
          /\ retry = 0 =>
                /\ RCC_BDCR.RTCSEL = "LSI"
                /\ BKP_DR1 = RTC_USE_LSI

\* the tag that names the source selected in RCC->BDCR
TagOfSource(sel) == IF sel = "LSE" THEN RTC_USE_LSE ELSE RTC_USE_LSI

C16_MarkerUntouched ==
    [][BKP_DR1' = BKP_DR1 /\ dr1_writes' = dr1_writes /\ dr1_reads' = dr1_reads]_vars

\* struct tm input_time = {0}
ZeroTm == Tm(0, 0, 0, 0, 0, 0, 0, 0, 0)

\* C17: every line read before the 10 s deadline leads to exactly one
\* rtc_set_time call and a success report, whether or not it matches the
\* pattern; fields the scan did not fill keep their zero default before the
\* year - 1900 and month - 1 adjustment; there is no rejection of a bad line.
C17_MalformedIsCommitted ==
    (pc \in {"key_return", "key_done"} /\ KeyAndLineInTime) =>
        /\ set_calls = 1
        /\ out[Len(out)] = "Time set."
        /\ last_set = AdjustInput(sscanf(buffer, ZeroTm))
        /\ buffer = LineWords => last_set = Tm(-1900, -1, 0, 0, 0, 0, 0, 0, 0)
        /\ buffer = LineShort => last_set = Tm(124, 5, 0, 0, 0, 0, 0, 0, 0)
        /\ buffer = LineSlash => last_set = Tm(124, -1, 0, 0, 0, 0, 0, 0, 0)

\* what the code does guarantee: the same, provided the tick read again at
\* line 75 is still inside the window
C17_CommitWhenRecheckInTime ==
    (pc \in {"key_return", "key_done"} /\ KeyAndLineInTime
        /\ Waited < LINE_WAIT_MS) =>
        /\ set_calls = 1
        /\ out[Len(out)] = "Time set."
        /\ last_set = AdjustInput(sscanf(buffer, ZeroTm))
        /\ buffer = LineWords => last_set = Tm(-1900, -1, 0, 0, 0, 0, 0, 0, 0)
        /\ buffer = LineShort => last_set = Tm(124, 5, 0, 0, 0, 0, 0, 0, 0)
        /\ buffer = LineSlash => last_set = Tm(124, -1, 0, 0, 0, 0, 0, 0, 0)

\* C18: at every interleaving of the alarm interrupt with the main flow,
\* also while a setter is between setting and clearing CRL bit 4 or is
\* waiting for RTOFF, the interrupt path calls no time or alarm setter, does
\* not wait, and leaves the counter / calendar value, the
\* configuration-allowed bit and the marker unchanged.
C18_InterruptIsInert ==
    [][ (EXTI_RTC'.PR < EXTI_RTC.PR) =>
          /\ pc' = pc
          /\ irq_at' = pc
          /\ UNCHANGED <<op, arg, last_set, last_alarm, ticks, set_calls>>
          /\ UNCHANGED <<RTC_CNTL, RTC_CNTH, RTC_ALRL, RTC_ALRH>>
          /\ UNCHANGED <<RTC_DR, RTC_TR>>
          /\ RTC_CRL'.CNF = RTC_CRL.CNF
          /\ RTC_CRL'.RTOFF = RTC_CRL.RTOFF
          /\ UNCHANGED <<BKP_DR1, PWR_CR_DBP, dr1_writes>>
      ]_vars

\* the callback ran while rtc_set_time_t was in configuration mode
C18_Witness ==
    /\ irq_at = "set_cnth"
    /\ pc = "set_cnth"
    /\ RTC_CRL.CNF = 1
    /\ alarm_runs = 1
    /\ EXTI_RTC.PR = 0
    /\ out[Len(out)] = "Alarm"

\* the callback ran while rtc_set_alarm_t was waiting for RTOFF
C18_WitnessWait ==
    /\ irq_at = "alm_wait"
    /\ pc = "alm_wait"
    /\ RTC_CRL.RTOFF = 0
    /\ alarm_runs = 1
    /\ EXTI_RTC.PR = 0

\* C19: with the counter counting during the call, every value time()
\* produces (its return value and the value stored through a non-NULL
\* argument) is a value the 32-bit counter held at some instant of the call.
C19_TimeReadsAHeldValue ==
    (op \in {"rtc_get_time_t", "time"} /\ pc = "idle" /\ held # {}) =>
        /\ ret \in held
        /\ stored # Nil => stored \in held

\* with no tick during the call the value read is the value of the counter
C19_QuietReadIsExact ==
    (op \in {"rtc_get_time_t", "time"} /\ pc = "idle" /\ Cardinality(held) = 1) =>
        /\ ret \in held
        /\ stored # Nil => stored \in held

(***************************************************************************)
(* SpecReboot: boots of either build separated by resets and power cuts    *)
(***************************************************************************)
\* what a reset of the microcontroller does to everything outside the
\* backup domain; the next boot starts at rtc_init
ResetVolatile ==
    /\ resets < MaxResets
    /\ resets' = resets + 1
    /\ pc' = "init_start"
    /\ op' = None
    /\ arg' = Nil
    /\ ret' = Nil
    /\ out' = <<>>
    /\ last_set' = Nil
    /\ ticks' = 0
    /\ now_time' = Tm(0, 0, 0, 0, 0, 0, 0, 0, 0)
    /\ RTC_CRH_ALRIE' = 0
    /\ rd' = <<>>
    /\ PWR_CR_DBP' = 0
    /\ bkp_flag' = 0
    /\ retry' = 0
    /\ polls' = 0
    /\ caller' = "main"
    /\ rdy_at_exit' = -1
    /\ dr1_reads' = 0
    /\ dr1_writes' = 0
    /\ UNCHANGED <<elapsed, set_calls, backend, lse_ok, held, stored>>
    /\ UNCHANGED <<keyVars, almVars>>

\* reset of the microcontroller (button, watchdog, main supply cut with the
\* battery in place): the backup domain keeps DR1, RCC->BDCR and the clock
McuReset ==
    /\ ResetVolatile
    /\ RTC_CRL' = [CNF |-> 0, RTOFF |-> 1, ALRF |-> 0]
    /\ boot_DR1' = BKP_DR1
    /\ boot_clock' = ClockValue
    /\ UNCHANGED <<RTC_DR, RTC_TR, RTC_CR_BKP>>
    /\ UNCHANGED <<RTC_CNTL, RTC_CNTH, RTC_ALRL, RTC_ALRH>>
    /\ UNCHANGED <<BKP_DR1, RCC_BDCR, clock_written>>

\* the backup domain loses power: DR1, RCC->BDCR and the clock registers go
\* back to their reset values
PowerLoss ==
    /\ ResetVolatile
    /\ RTC_CRL' = [CNF |-> 0, RTOFF |-> 1, ALRF |-> 0]
    /\ BKP_DR1' = 0
    /\ RCC_BDCR' = [LSEON |-> 0, LSERDY |-> 0, RTCSEL |-> None]
    /\ RTC_DR' = [Year |-> 0, Month |-> 1, Date |-> 1, WeekDay |-> 1]
    /\ RTC_TR' = [Hours |-> 0, Minutes |-> 0, Seconds |-> 0]
    /\ RTC_CR_BKP' = 0
    /\ RTC_CNTL' = 0
    /\ RTC_CNTH' = 0
    /\ RTC_ALRL' = 65535
    /\ RTC_ALRH' = 65535
    /\ clock_written' = FALSE
    /\ boot_DR1' = 0
    /\ boot_clock' = IF backend = "F1" THEN TimeT(0, 0) ELSE TimeT(10957, 0)

\* the first boot after the backup domain was powered
InitReboot ==
    /\ InitBoot
    /\ BKP_DR1 = 0
    /\ RCC_BDCR.LSEON = 0
    /\ RTC_DR = [Year |-> 0, Month |-> 1, Date |-> 1, WeekDay |-> 1]
    /\ RTC_TR = [Hours |-> 0, Minutes |-> 0, Seconds |-> 0]
    /\ RTC_CNTL = 0
    /\ RTC_CNTH = 0

NextReboot ==
    \/ NextBoot
    \/ McuReset
    \/ PowerLoss

SpecReboot == InitReboot /\ [][NextReboot]_vars

\* C20: across boots with resets or power cuts at any point of rtc_init,
\* whenever a boot finds a valid marker in DR1 and therefore skips the reset
\* to epoch, the clock has been written by a time setter at least once since
\* the backup domain last lost power.
C20_ValidMarkerMeansClockSet ==
    (boot_DR1 \in ValidTags /\ bkp_flag \in ValidTags
        /\ pc \in {"init_nvic", "init_done"}) => clock_written

\* a boot that runs to the end without interruption leaves a valid marker
\* only next to a clock that was written
C20_UninterruptedBootIsSafe ==
    (pc = "init_done" /\ resets = 0) =>
        /\ BKP_DR1 \in ValidTags
        /\ clock_written

=============================================================================
